---- MODULE Spec2Model ----
(***************************************************************************)
(* State-machine model of the perp order book of sdk/program/src/orderbook *)
(* (Orderbook::new_order over two BookSides, a PerpMarket sequence counter *)
(* and the EventQueue).                                                    *)
(*                                                                         *)
(* Machine words are scaled: the 64-bit halves of a node key, u64 and i64  *)
(* are WordBits wide here, so a key is 2*WordBits wide and i64::MAX is     *)
(* 2^(WordBits-1)-1.  The order tree (ordertree.rs, ordertree_iterator.rs) *)
(* is not part of the sources at hand; its operations are modelled from    *)
(* the specification, over the set of leaves a side holds, the trie shape  *)
(* being the one the keys determine.                                       *)
(***************************************************************************)
EXTENDS Integers, Sequences, FiniteSets, TLC

VARIABLES bids, asks, event_queue, market, now, call

vars == <<bids, asks, event_queue, market, now, call>>

-----------------------------------------------------------------------------
(* Bounds of the model *)

WordBits == 4      \* width of u64 / i64 and of each half of a node key
MaxNodes == 3      \* capacity of the node arena of one BookSide
MaxOrders == 3     \* new_order calls in one behaviour
MaxNow == 1        \* the clock runs from 0 to MaxNow
MaxPrice == 2      \* limit prices of Fixed / ImmediateOrCancel orders: 1..MaxPrice
MaxBase == 2       \* max_base_lots: 0..MaxBase
MaxQuote == 3      \* max_quote_lots: 0..MaxQuote, and i64::MAX
MaxTif == 1        \* time_in_force: 0..MaxTif
MaxLimit == 2      \* the match limit: 0..MaxLimit

(* Program constants *)

DROP_EXPIRED_ORDER_LIMIT == 5
MAX_NUM_EVENTS == 488

-----------------------------------------------------------------------------
(* Machine words *)

WordSpan == 2 ^ WordBits
U64_MAX == WordSpan - 1
I64_MAX == (2 ^ (WordBits - 1)) - 1

Min(a, b) == IF a <= b THEN a ELSE b

\* `a / b` of two i64, b not 0: the quotient rounded towards zero
DivI64(a, b) ==
    LET q == (IF a < 0 THEN -a ELSE a) \div (IF b < 0 THEN -b ELSE b)
    IN  IF (a < 0) = (b < 0) THEN q ELSE -q

\* u64 bitwise complement
NotU64(x) == U64_MAX - x

\* `x as u64` of an i64
AsU64(x) == IF x < 0 THEN x + WordSpan ELSE x

-----------------------------------------------------------------------------
(* order_type.rs *)

Bid == "Bid"
Ask == "Ask"
Sides == {Bid, Ask}

invert_side(side) == IF side = Bid THEN Ask ELSE Bid

is_price_better(side, lhs, rhs) == IF side = Bid THEN lhs > rhs ELSE lhs < rhs

PriceWithinLimitSidesSwapped(side, price, limit) ==
    IF side = Bid THEN price >= limit ELSE price <= limit

is_price_within_limit(side, price, limit) ==
    IF side = Bid THEN price <= limit ELSE price >= limit

-----------------------------------------------------------------------------
(* nodes.rs *)

NewNodeKeyNoComplement(side, price_data, seq_num) == price_data * WordSpan + seq_num

new_node_key(side, price_data, seq_num) ==
    LET seq == IF side = Bid THEN NotU64(seq_num) ELSE seq_num
    IN  price_data * WordSpan + seq

fixed_price_lots(price_data) == price_data

price_data(leaf) == leaf.key \div WordSpan

LeafNode_new(key, owner, quantity, timestamp, order_type, time_in_force, client_order_id) ==
    [key |-> key, owner |-> owner, quantity |-> quantity, timestamp |-> timestamp,
     order_type |-> order_type, time_in_force |-> time_in_force,
     client_order_id |-> client_order_id]

expiry(leaf) ==
    IF leaf.time_in_force = 0 THEN U64_MAX ELSE leaf.timestamp + leaf.time_in_force

ExpiredOnlyAfterExpiry(leaf, now_ts) ==
    leaf.time_in_force > 0 /\ now_ts > leaf.timestamp + leaf.time_in_force

is_expired(leaf, now_ts) ==
    leaf.time_in_force > 0 /\ now_ts >= leaf.timestamp + leaf.time_in_force

-----------------------------------------------------------------------------
(* order.rs *)

market_order_limit_for_side(side) == IF side = Bid THEN I64_MAX ELSE 1

PostOnlyTreatedAsLimit(order) == FALSE

is_post_only(order) ==
    order.params.kind = "Fixed" /\ order.params.order_type = "PostOnly"

\* Order::price: (price_lots, price_lots as u64); it never fails
Order_price(order) ==
    LET price_lots == IF order.params.kind = "Market"
                      THEN market_order_limit_for_side(order.side)
                      ELSE order.params.price_lots
    IN  <<price_lots, AsU64(price_lots)>>

-----------------------------------------------------------------------------
(* The order tree of one side (ordertree.rs, ordertree_iterator.rs; modelled *)
(* from the specification, sections 3 and 4.1).  An Option is a set with at  *)
(* most one element.                                                         *)

\* an empty tree over an arena of nodes_len nodes; child_earliest_expiry maps
\* each inner node to the pair its field holds
OrderTree_sized(tree_type, nodes_len) ==
    [order_tree_type |-> tree_type, leaves |-> {}, leaf_count |-> 0,
     bump_index |-> 0, free_list_len |-> 0, nodes_len |-> nodes_len,
     child_earliest_expiry |-> <<>>]

OrderTree_new(tree_type) == OrderTree_sized(tree_type, MaxNodes)

tree_side(bs) == IF bs.order_tree_type = "Bids" THEN Bid ELSE Ask

Keys(bs) == {l.key : l \in bs.leaves}

LeafByKey(bs, key) == {l \in bs.leaves : l.key = key}

\* free-list first, then bump allocation up to the capacity
CanAlloc(bs, n) == bs.free_list_len + (bs.nodes_len - bs.bump_index) >= n

Alloc(bs, n) ==
    LET fromFree == Min(n, bs.free_list_len)
    IN  [bs EXCEPT !.free_list_len = @ - fromFree,
                   !.bump_index = @ + (n - fromFree)]

is_full(bs) == bs.free_list_len = 0 /\ bs.bump_index = bs.nodes_len

\* walk_down: the bit of the key at position b, counted from the low end
KeyBit(key, b) == (key \div (2 ^ b)) % 2

\* the bits of the key above position b
KeyPrefix(key, b) == key \div (2 ^ (b + 1))

\* the position, counted from the low end, of the highest bit two keys differ in
HighestDiff(x, y) ==
    CHOOSE b \in 0 .. (2 * WordBits - 1) :
        KeyBit(x, b) # KeyBit(y, b) /\ KeyPrefix(x, b) = KeyPrefix(y, b)

\* the critical bit of the leaves K (two or more): the highest bit in which
\* two of their keys differ, which is the one the least and the greatest differ in
CritBit(K) ==
    LET lo == CHOOSE l \in K : \A m \in K : l.key <= m.key
        hi == CHOOSE l \in K : \A m \in K : l.key >= m.key
    IN  HighestDiff(lo.key, hi.key)

\* the inner node over the leaves K (two or more): its critical bit and the
\* prefix its leaves share
InnerOver(K) ==
    LET b == CritBit(K)
    IN  <<b, KeyPrefix((CHOOSE l \in K : TRUE).key, b)>>

\* the leaves of K under child i of the inner node n
ChildLeaves(K, n, i) == {l \in K : KeyPrefix(l.key, n[1]) = n[2] /\ KeyBit(l.key, n[1]) = i}

\* the inner nodes among N on the way from the root to the key
Ancestors(N, key) == {n \in N : KeyPrefix(key, n[1]) = n[2]}

\* the inner node a leaf of this key hangs from in a tree that holds the
\* leaves K besides: it splits the key from the leaf of K nearest to it
ParentOf(K, key) ==
    LET b == CHOOSE c \in {HighestDiff(key, l.key) : l \in K} :
                 \A l \in K : c <= HighestDiff(key, l.key)
    IN  <<b, KeyPrefix(key, b)>>

EarliestExpiryOfChildZero(cee, n) == cee[n][1]

\* InnerNode::earliest_expiry
earliest_expiry(cee, n) == Min(cee[n][1], cee[n][2])

\* earliest_expiry of the node at the top of the subtree of leaves S: a leaf's
\* expiry, an inner node's cached pair
NodeEarliestExpiry(cee, S) ==
    IF Cardinality(S) = 1 THEN expiry(CHOOSE l \in S : TRUE)
    ELSE earliest_expiry(cee, InnerOver(S))

\* on the way down every inner node traversed takes min(previous, expiry of the
\* new leaf) on the side taken; the new inner node of a split holds the new
\* leaf's expiry and the earliest expiry of the subtree it was split from
ExpiryAfterInsert(bs, new_leaf) ==
    LET cee == bs.child_earliest_expiry
        K == bs.leaves \ LeafByKey(bs, new_leaf.key)
        e == expiry(new_leaf)
        down == [n \in DOMAIN cee |->
                    IF KeyPrefix(new_leaf.key, n[1]) = n[2]
                    THEN [cee[n] EXCEPT ![KeyBit(new_leaf.key, n[1]) + 1] = Min(@, e)]
                    ELSE cee[n]]
    IN  IF K = {} \/ K # bs.leaves THEN down
        ELSE LET p == ParentOf(K, new_leaf.key)
                 other == NodeEarliestExpiry(cee, ChildLeaves(K, p, 1 - KeyBit(new_leaf.key, p[1])))
             IN  (p :> (IF KeyBit(new_leaf.key, p[1]) = 0 THEN <<e, other>> ELSE <<other, e>>))
                     @@ down

\* insert_leaf: [ok, tree, evicted]; one node for the first leaf, a leaf and
\* an inner node for a split, none for a replacement in place
insert_leaf(bs, new_leaf) ==
    LET same == LeafByKey(bs, new_leaf.key)
        need == IF bs.leaf_count = 0 THEN 1 ELSE 2
    IN  IF same # {}
        THEN [ok |-> TRUE, evicted |-> same,
              tree |-> [bs EXCEPT !.leaves = (@ \ same) \cup {new_leaf},
                                  !.child_earliest_expiry = ExpiryAfterInsert(bs, new_leaf)]]
        ELSE IF ~CanAlloc(bs, need)
        THEN [ok |-> FALSE, evicted |-> {}, tree |-> bs]
        ELSE [ok |-> TRUE, evicted |-> {},
              tree |-> [Alloc(bs, need) EXCEPT !.leaves = @ \cup {new_leaf},
                                               !.leaf_count = @ + 1,
                                               !.child_earliest_expiry =
                                                   ExpiryAfterInsert(bs, new_leaf)]]

\* the walk back to the root: each ancestor in A, deepest first, takes
\* new_expiry on the side of the key, and hands its own earliest expiry upward
RECURSIVE RecomputeUp(_, _, _, _)
RecomputeUp(cee, A, key, new_expiry) ==
    IF A = {} THEN cee
    ELSE LET a == CHOOSE n \in A : \A m \in A : n[1] <= m[1]
             upd == [cee EXCEPT ![a][KeyBit(key, a[1]) + 1] = new_expiry]
         IN  RecomputeUp(upd, A \ {a}, key, earliest_expiry(upd, a))

\* the parent of the removed leaf is freed and the leaf's sibling takes its place
ExpiryAfterRemove(bs, key) ==
    LET cee == bs.child_earliest_expiry
        up == Ancestors(DOMAIN cee, key)
    IN  IF up = {} THEN cee
        ELSE LET parent == CHOOSE n \in up : \A m \in up : n[1] <= m[1]
                 sibling == ChildLeaves(bs.leaves, parent, 1 - KeyBit(key, parent[1]))
                 kept == [n \in (DOMAIN cee) \ {parent} |-> cee[n]]
             IN  RecomputeUp(kept, up \ {parent}, key, NodeEarliestExpiry(cee, sibling))

RemoveByKeyKeepsCount(bs, search_key) ==
    LET found == LeafByKey(bs, search_key)
        freed == IF bs.leaf_count = 1 THEN 1 ELSE 2
    IN  IF found = {}
        THEN [removed |-> {}, tree |-> bs]
        ELSE [removed |-> found,
              tree |-> [bs EXCEPT !.leaves = @ \ found,
                                  !.free_list_len = @ + freed,
                                  !.child_earliest_expiry =
                                      ExpiryAfterRemove(bs, search_key)]]

\* remove_by_key: [removed, tree]; the leaf and, unless it was the root, its
\* parent inner node go to the free list
remove_by_key(bs, search_key) ==
    LET found == LeafByKey(bs, search_key)
        freed == IF bs.leaf_count = 1 THEN 1 ELSE 2
    IN  IF found = {}
        THEN [removed |-> {}, tree |-> bs]
        ELSE [removed |-> found,
              tree |-> [bs EXCEPT !.leaves = @ \ found,
                                  !.leaf_count = @ - 1,
                                  !.free_list_len = @ + freed,
                                  !.child_earliest_expiry =
                                      ExpiryAfterRemove(bs, search_key)]]

RECURSIVE AscendingByKey(_)
AscendingByKey(S) ==
    IF S = {} THEN <<>>
    ELSE LET lo == CHOOSE l \in S : \A m \in S : l.key <= m.key
         IN  <<lo>> \o AscendingByKey(S \ {lo})

RECURSIVE DescendingByKey(_)
DescendingByKey(S) ==
    IF S = {} THEN <<>>
    ELSE LET hi == CHOOSE l \in S : \A m \in S : l.key >= m.key
         IN  <<hi>> \o DescendingByKey(S \ {hi})

\* iter(root): ascending key for asks, descending for bids
OrderTreeIter(bs) ==
    IF tree_side(bs) = Ask THEN AscendingByKey(bs.leaves) ELSE DescendingByKey(bs.leaves)

min_leaf(bs) == {l \in bs.leaves : \A m \in bs.leaves : l.key <= m.key}
max_leaf(bs) == {l \in bs.leaves : \A m \in bs.leaves : l.key >= m.key}

\* the leaf of lowest priority: min for bids, max for asks
find_worst(bs) == IF tree_side(bs) = Bid THEN min_leaf(bs) ELSE max_leaf(bs)

\* descend to a child whose child_earliest_expiry is <= now_ts, child 0 first;
\* at a leaf, confirm that it is expired
RECURSIVE FindOneExpired(_, _, _)
FindOneExpired(cee, K, now_ts) ==
    IF K = {} THEN {}
    ELSE IF Cardinality(K) = 1 THEN {l \in K : is_expired(l, now_ts)}
    ELSE LET n == InnerOver(K)
         IN  IF cee[n][1] <= now_ts THEN FindOneExpired(cee, ChildLeaves(K, n, 0), now_ts)
             ELSE IF cee[n][2] <= now_ts
             THEN FindOneExpired(cee, ChildLeaves(K, n, 1), now_ts)
             ELSE {}

remove_one_expired(bs, now_ts) ==
    LET hit == FindOneExpired(bs.child_earliest_expiry, bs.leaves, now_ts)
    IN  IF hit = {} THEN [removed |-> {}, tree |-> bs]
        ELSE remove_by_key(bs, (CHOOSE l \in hit : TRUE).key)

-----------------------------------------------------------------------------
(* bookside_iterator.rs, bookside.rs *)

fixed_to_result(node, now_ts) ==
    [handle |-> node.key, node |-> node,
     price_lots |-> fixed_price_lots(price_data(node)),
     state |-> IF is_expired(node, now_ts) THEN "Invalid" ELSE "Valid"]

item_is_valid(item) == item.state = "Valid"

IterWorstFirst(bs, now_ts) ==
    LET it == OrderTreeIter(bs)
    IN  [i \in 1 .. Len(it) |-> fixed_to_result(it[Len(it) + 1 - i], now_ts)]

iter_all_including_invalid(bs, now_ts) ==
    LET it == OrderTreeIter(bs)
    IN  [i \in 1 .. Len(it) |-> fixed_to_result(it[i], now_ts)]

iter_valid(bs, now_ts) == SelectSeq(iter_all_including_invalid(bs, now_ts), item_is_valid)

RemoveBestInstead(bs, now_ts) ==
    LET best == IF tree_side(bs) = Bid THEN max_leaf(bs) ELSE min_leaf(bs)
    IN  IF best = {} THEN [removed |-> {}, price |-> 0, tree |-> bs]
        ELSE LET b == fixed_to_result(CHOOSE l \in best : TRUE, now_ts)
                 r == remove_by_key(bs, b.node.key)
             IN  [removed |-> r.removed, price |-> b.price_lots, tree |-> r.tree]

RemoveWorstValidOnly(bs, now_ts) ==
    LET worst == {l \in find_worst(bs) : ~is_expired(l, now_ts)}
    IN  IF worst = {} THEN [removed |-> {}, price |-> 0, tree |-> bs]
        ELSE LET worse == fixed_to_result(CHOOSE l \in worst : TRUE, now_ts)
                 r == remove_by_key(bs, worse.node.key)
             IN  [removed |-> r.removed, price |-> worse.price_lots, tree |-> r.tree]

\* remove_worst: [removed, price, tree]
remove_worst(bs, now_ts) ==
    LET worst == find_worst(bs)
    IN  IF worst = {} THEN [removed |-> {}, price |-> 0, tree |-> bs]
        ELSE LET worse == fixed_to_result(CHOOSE l \in worst : TRUE, now_ts)
                 r == remove_by_key(bs, worse.node.key)
             IN  [removed |-> r.removed, price |-> worse.price_lots, tree |-> r.tree]

\* the loop of matched_amount over the valid items from the i-th on
RECURSIVE MatchedAmountFrom(_, _, _, _, _)
MatchedAmountFrom(items, i, sum_qty, sum_amt, quantity) ==
    IF i > Len(items) THEN {}
    ELSE LET order == items[i]
             qty == sum_qty + order.node.quantity
             amt == sum_amt + order.node.quantity * order.price_lots
             extra_qty == qty - quantity
         IN  IF extra_qty >= 0 THEN {amt - extra_qty * order.price_lots}
             ELSE MatchedAmountFrom(items, i + 1, qty, amt, quantity)

\* matched_amount: the set of at most one amount of quote lots
matched_amount(bs, quantity, now_ts) ==
    IF quantity <= 0 THEN {}
    ELSE MatchedAmountFrom(iter_valid(bs, now_ts), 1, 0, 0, quantity)

\* the loop of matched_quantity over the valid items from the i-th on
RECURSIVE MatchedQuantityFrom(_, _, _, _, _)
MatchedQuantityFrom(items, i, sum_qty, sum_amt, amount) ==
    IF i > Len(items) THEN {}
    ELSE LET order == items[i]
             qty == sum_qty + order.node.quantity
             amt == sum_amt + order.node.quantity * order.price_lots
             extra_amt == amt - amount
         IN  IF extra_amt >= 0
             THEN {qty - DivI64(extra_amt + order.price_lots - 1, order.price_lots)}
             ELSE MatchedQuantityFrom(items, i + 1, qty, amt, amount)

\* matched_quantity: the set of at most one quantity of base lots
matched_quantity(bs, amount, now_ts) ==
    IF amount <= 0 THEN {}
    ELSE MatchedQuantityFrom(iter_valid(bs, now_ts), 1, 0, 0, amount)

-----------------------------------------------------------------------------
(* queue.rs *)

\* a zeroed queue whose buf holds buf_len events
EventQueue_sized(buf_len) ==
    [head |-> 0, count |-> 0, seq_num |-> 0, buf |-> <<>>, buf_len |-> buf_len]

EventQueue_zeroed == EventQueue_sized(MAX_NUM_EVENTS)

queue_len(eq) == eq.count

is_empty(eq) == queue_len(eq) = 0

queue_full(eq) == eq.count = eq.buf_len

\* buf maps the slots written so far to their events (slot s is buf[s + 1])
SetSlot(buf, slot, value) ==
    [s \in DOMAIN buf \cup {slot + 1} |-> IF s = slot + 1 THEN value ELSE buf[s]]

PushBackKeepsSeqNum(eq, value) ==
    IF queue_full(eq) THEN [ok |-> FALSE, err |-> {value}, queue |-> eq]
    ELSE [ok |-> TRUE, err |-> {},
          queue |-> [eq EXCEPT !.buf = SetSlot(@, (eq.head + eq.count) % eq.buf_len, value),
                               !.count = @ + 1]]

\* push_back: [ok, err, queue]; err is the event handed back when the queue is full
push_back(eq, value) ==
    IF queue_full(eq) THEN [ok |-> FALSE, err |-> {value}, queue |-> eq]
    ELSE LET slot == (eq.head + eq.count) % eq.buf_len
         IN  [ok |-> TRUE, err |-> {},
              queue |-> [eq EXCEPT !.buf = SetSlot(@, slot, value),
                                   !.count = @ + 1,
                                   !.seq_num = @ + 1]]

\* peek_front: the set of at most one event
peek_front(eq) == IF is_empty(eq) THEN {} ELSE {eq.buf[eq.head + 1]}

PopFrontKeepsHead(eq) ==
    IF is_empty(eq) THEN [ok |-> FALSE, value |-> {}, queue |-> eq]
    ELSE [ok |-> TRUE, value |-> {eq.buf[eq.head + 1]},
          queue |-> [eq EXCEPT !.count = @ - 1]]

PopFrontAlways(eq) ==
    [ok |-> TRUE, value |-> IF eq.head + 1 \in DOMAIN eq.buf THEN {eq.buf[eq.head + 1]} ELSE {},
     queue |-> [eq EXCEPT !.count = IF @ = 0 THEN 0 ELSE @ - 1,
                          !.head = (@ + 1) % eq.buf_len]]

\* pop_front: [ok, value, queue]
pop_front(eq) ==
    IF is_empty(eq) THEN [ok |-> FALSE, value |-> {}, queue |-> eq]
    ELSE LET value == eq.buf[eq.head + 1]
         IN  [ok |-> TRUE, value |-> {value},
              queue |-> [eq EXCEPT !.count = @ - 1,
                                   !.head = (@ + 1) % eq.buf_len]]

RevertPushesKeepsSeqNum(eq, desired_len) ==
    IF desired_len > eq.count THEN [ok |-> FALSE, queue |-> eq]
    ELSE [ok |-> TRUE, queue |-> [eq EXCEPT !.count = desired_len]]

RevertPushesByDesiredLen(eq, desired_len) ==
    IF desired_len > eq.count THEN [ok |-> FALSE, queue |-> eq]
    ELSE [ok |-> TRUE,
          queue |-> [eq EXCEPT !.count = desired_len, !.seq_num = @ - desired_len]]

\* revert_pushes: [ok, queue]
revert_pushes(eq, desired_len) ==
    IF desired_len > eq.count THEN [ok |-> FALSE, queue |-> eq]
    ELSE LET len_diff == eq.count - desired_len
         IN  [ok |-> TRUE,
              queue |-> [eq EXCEPT !.count = desired_len,
                                   !.seq_num = @ - len_diff]]

\* the pending events, oldest first (EventQueue::iter)
queue_iter(eq) ==
    [i \in 1 .. eq.count |-> eq.buf[((eq.head + i - 1) % eq.buf_len) + 1]]

FillEvent_new(taker_side, maker_out, timestamp, seq_num, maker, maker_order_id, maker_client_order_id, maker_timestamp, taker, taker_client_order_id, fill_price, quantity) ==
    [event_type |-> "Fill", taker_side |-> taker_side,
     maker_out |-> IF maker_out THEN 1 ELSE 0,
     timestamp |-> timestamp, seq_num |-> seq_num, maker |-> maker,
     maker_order_id |-> maker_order_id,
     maker_client_order_id |-> maker_client_order_id,
     maker_timestamp |-> maker_timestamp, taker |-> taker,
     taker_client_order_id |-> taker_client_order_id,
     price |-> fill_price, quantity |-> quantity]

OutEvent_from_leaf_node(side, timestamp, seq_num, node) ==
    [event_type |-> "Out", side |-> side, timestamp |-> timestamp,
     seq_num |-> seq_num, owner |-> node.owner, quantity |-> node.quantity,
     order_id |-> node.key]

-----------------------------------------------------------------------------
(* perp_market.rs *)

GenOrderIdKeepsSeqNum(m, side, pd) ==
    [market |-> m, id |-> new_node_key(side, pd, m.seq_num + 1)]

\* gen_order_id: [market, id]
gen_order_id(m, side, pd) ==
    [market |-> [m EXCEPT !.seq_num = @ + 1],
     id |-> new_node_key(side, pd, m.seq_num + 1)]

-----------------------------------------------------------------------------
(* book.rs: Orderbook::new_order *)

bookside(bk, side) == IF side = Bid THEN bk.bids ELSE bk.asks

\* the state of the matching loop; halt is "go" until a break or a return
WalkStart(order, eq, limit) ==
    [remaining_base_lots |-> order.max_base_lots,
     remaining_quote_lots |-> order.max_quote_lots,
     limit |-> limit,
     number_of_dropped_expired_orders |-> 0,
     post_target |-> TRUE,
     orders_to_change |-> <<>>,
     orders_to_delete |-> <<>>,
     queue |-> eq,
     halt |-> "go"]

MayDropExpiredOneMore(number_of_dropped_expired_orders) ==
    number_of_dropped_expired_orders <= DROP_EXPIRED_ORDER_LIMIT

MayDropExpiredAlways(number_of_dropped_expired_orders) == TRUE

\* "Remove the order from the book unless we've done that enough"
MayDropExpired(number_of_dropped_expired_orders) ==
    number_of_dropped_expired_orders < DROP_EXPIRED_ORDER_LIMIT

\* the branch of the loop body for an expired leaf
DropExpired(other_side, now_ts, st, best_opposing) ==
    IF MayDropExpired(st.number_of_dropped_expired_orders)
    THEN LET event == OutEvent_from_leaf_node(other_side, now_ts, st.queue.seq_num,
                                              best_opposing.node)
             pushed == push_back(st.queue, event)
         IN  IF ~pushed.ok
             THEN [st EXCEPT !.number_of_dropped_expired_orders = @ + 1,
                             !.halt = "Panic"]
             ELSE [st EXCEPT !.number_of_dropped_expired_orders = @ + 1,
                             !.queue = pushed.queue,
                             !.orders_to_delete =
                                 Append(@, <<best_opposing.handle, best_opposing.node.key>>)]
    ELSE st

CancelProvideSkipsMaker(other_side, now_ts, st, best_opposing) == st

\* the self-trade CancelProvide branch
CancelProvide(other_side, now_ts, st, best_opposing) ==
    LET event == OutEvent_from_leaf_node(other_side, now_ts, st.queue.seq_num,
                                         best_opposing.node)
        pushed == push_back(st.queue, event)
    IN  IF ~pushed.ok THEN [st EXCEPT !.halt = "Panic"]
        ELSE [st EXCEPT !.queue = pushed.queue,
                        !.orders_to_delete =
                            Append(@, <<best_opposing.handle, best_opposing.node.key>>)]

\* the tail of the loop body: take match_base_lots from the maker
TakeFromMaker(order, account_pk, now_ts, st, best_opposing, match_base_lots) ==
    LET best_opposing_price == best_opposing.price_lots
        match_quote_lots == match_base_lots * best_opposing_price
        new_quote == st.remaining_quote_lots - match_quote_lots
        new_best_opposing_quantity == best_opposing.node.quantity - match_base_lots
        maker_out == new_best_opposing_quantity = 0
        fill == FillEvent_new(order.side, maker_out, now_ts, st.queue.seq_num,
                              best_opposing.node.owner, best_opposing.node.key,
                              best_opposing.node.client_order_id,
                              best_opposing.node.timestamp, account_pk,
                              order.client_order_id, best_opposing_price,
                              match_base_lots)
        pushed == push_back(st.queue, fill)
        booked == [st EXCEPT
                      !.remaining_base_lots = @ - match_base_lots,
                      !.remaining_quote_lots = new_quote,
                      !.orders_to_delete =
                          IF maker_out
                          THEN Append(@, <<best_opposing.handle, best_opposing.node.key>>)
                          ELSE @,
                      !.orders_to_change =
                          IF maker_out THEN @
                          ELSE Append(@, <<best_opposing.handle,
                                           new_best_opposing_quantity>>)]
    IN  IF ~(new_quote >= 0) THEN [booked EXCEPT !.halt = "AssertFailed"]
        ELSE IF ~pushed.ok THEN [booked EXCEPT !.halt = "Panic"]
        ELSE [booked EXCEPT !.queue = pushed.queue, !.limit = @ - 1]

\* "Order could not be placed due to PostOnly"
PostOnlyStopKeepsTarget(st) == [st EXCEPT !.halt = "break"]

PostOnlyStop(st) == [st EXCEPT !.post_target = FALSE, !.halt = "break"]

MatchLimitNeverReached(limit) == FALSE

\* no match is left of the limit the caller gave
MatchLimitReached(limit) == limit = 0

MatchLimitStopKeepsTarget(st) == [st EXCEPT !.halt = "break"]

\* "Order matching limit reached"
MatchLimitStop(st) == [st EXCEPT !.post_target = FALSE, !.halt = "break"]

QuoteAlwaysBuys(max_match_by_quote) == FALSE

\* the quote budget buys not one lot at the maker's price
QuoteBuysNothing(max_match_by_quote) == max_match_by_quote = 0

MatchBaseLotsIgnoringQuote(remaining_base_lots, quantity, max_match_by_quote) ==
    Min(remaining_base_lots, quantity)

MatchBaseLots(remaining_base_lots, quantity, max_match_by_quote) ==
    Min(Min(remaining_base_lots, quantity), max_match_by_quote)

\* one pass of the loop body over the leaf best_opposing
MatchStep(order, account_pk, now_ts, price_lots, st, best_opposing) ==
    LET side == order.side
        other_side == invert_side(side)
        best_opposing_price == best_opposing.price_lots
        max_match_by_quote == st.remaining_quote_lots \div best_opposing_price
        match_base_lots == MatchBaseLots(st.remaining_base_lots,
                                         best_opposing.node.quantity, max_match_by_quote)
        order_would_self_trade == account_pk = best_opposing.node.owner
    IN  IF st.remaining_base_lots = 0 \/ st.remaining_quote_lots = 0
        THEN [st EXCEPT !.halt = "break"]
        ELSE IF ~item_is_valid(best_opposing)
        THEN DropExpired(other_side, now_ts, st, best_opposing)
        ELSE IF ~is_price_within_limit(side, best_opposing_price, price_lots)
        THEN [st EXCEPT !.halt = "break"]
        ELSE IF is_post_only(order)
        THEN PostOnlyStop(st)
        ELSE IF MatchLimitReached(st.limit)
        THEN MatchLimitStop(st)
        ELSE IF QuoteBuysNothing(max_match_by_quote)
        THEN [st EXCEPT !.halt = "break"]
        ELSE IF order_would_self_trade /\ order.self_trade_behavior = "CancelProvide"
        THEN CancelProvide(other_side, now_ts, st, best_opposing)
        ELSE IF order_would_self_trade /\ order.self_trade_behavior = "AbortTransaction"
        THEN [st EXCEPT !.halt = "WouldSelfTrade"]
        ELSE TakeFromMaker(order, account_pk, now_ts, st, best_opposing, match_base_lots)

\* the loop over iter_all_including_invalid of the opposing side
RECURSIVE MatchLoop(_, _, _, _, _, _, _)
MatchLoop(order, account_pk, now_ts, price_lots, items, i, st) ==
    IF i > Len(items) \/ st.halt # "go" THEN st
    ELSE MatchLoop(order, account_pk, now_ts, price_lots, items, i + 1,
                   MatchStep(order, account_pk, now_ts, price_lots, st, items[i]))

ApplyChangesDropped(bs, changes, i) == bs

\* write the new quantities back through the handles
RECURSIVE ApplyChanges(_, _, _)
ApplyChanges(bs, changes, i) ==
    IF i > Len(changes) THEN bs
    ELSE ApplyChanges(
            [bs EXCEPT !.leaves = {IF l.key = changes[i][1]
                                   THEN [l EXCEPT !.quantity = changes[i][2]]
                                   ELSE l : l \in @}],
            changes, i + 1)

RECURSIVE ApplyDeletesButLast(_, _, _)
ApplyDeletesButLast(bs, deletes, i) ==
    IF i >= Len(deletes) THEN [ok |-> TRUE, tree |-> bs]
    ELSE LET r == remove_by_key(bs, deletes[i][2])
         IN  IF r.removed = {} THEN [ok |-> FALSE, tree |-> bs]
             ELSE ApplyDeletesButLast(r.tree, deletes, i + 1)

\* remove the deleted makers by key: [ok, tree]; ok is FALSE when a key is not found
RECURSIVE ApplyDeletes(_, _, _)
ApplyDeletes(bs, deletes, i) ==
    IF i > Len(deletes) THEN [ok |-> TRUE, tree |-> bs]
    ELSE LET r == remove_by_key(bs, deletes[i][2])
         IN  IF r.removed = {} THEN [ok |-> FALSE, tree |-> bs]
             ELSE ApplyDeletes(r.tree, deletes, i + 1)

BookBaseQuantityIgnoringQuote(remaining_base_lots, remaining_quote_lots, price_lots) ==
    remaining_base_lots

\* "If there are still quantity unmatched, place on the book"
BookBaseQuantity(remaining_base_lots, remaining_quote_lots, price_lots) ==
    Min(remaining_base_lots, DivI64(remaining_quote_lots, price_lots))

NothingToPostWhenNegative(book_base_quantity) == book_base_quantity < 0

\* "if book_base_quantity <= 0 { post_target = false }"
NothingToPost(book_base_quantity) == book_base_quantity <= 0

Outcome(bidsV, asksV, eq, mkt, tag, id) ==
    [bids |-> bidsV, asks |-> asksV, event_queue |-> eq, market |-> mkt,
     ret |-> [tag |-> tag, id |-> id]]

WithSide(res, side, bs) ==
    IF side = Bid THEN [res EXCEPT !.bids = bs] ELSE [res EXCEPT !.asks = bs]

\* "Place remainder on the book if requested"; res holds the book after matching
PostRemainder(order, account_pk, now_ts, price_lots, order_id, book_base_quantity, res) ==
    LET side == order.side
        own == bookside(res, side)
        swept == remove_one_expired(own, now_ts)
        sweptPush ==
            IF swept.removed = {} THEN [ok |-> TRUE, queue |-> res.event_queue]
            ELSE push_back(res.event_queue,
                           OutEvent_from_leaf_node(side, now_ts, res.event_queue.seq_num,
                                                   CHOOSE l \in swept.removed : TRUE))
        afterSweep == [WithSide(res, side, swept.tree) EXCEPT !.event_queue = sweptPush.queue]
        worst == remove_worst(swept.tree, now_ts)
        worstPush ==
            push_back(sweptPush.queue,
                      OutEvent_from_leaf_node(side, now_ts, sweptPush.queue.seq_num,
                                              CHOOSE l \in worst.removed : TRUE))
        evicting == is_full(swept.tree)
        afterEvict ==
            IF evicting
            THEN [WithSide(afterSweep, side, worst.tree) EXCEPT !.event_queue = worstPush.queue]
            ELSE afterSweep
        new_order_leaf == LeafNode_new(order_id, account_pk, book_base_quantity, now_ts,
                                       "Limit", order.time_in_force, order.client_order_id)
        inserted == insert_leaf(bookside(afterEvict, side), new_order_leaf)
    IN  IF ~sweptPush.ok
        THEN [WithSide(res, side, swept.tree) EXCEPT !.ret = [tag |-> "Panic", id |-> 0]]
        ELSE IF evicting /\ worst.removed = {}
        THEN [afterSweep EXCEPT !.ret = [tag |-> "Panic", id |-> 0]]
        ELSE IF evicting /\ ~is_price_better(side, price_lots, worst.price)
        THEN [WithSide(afterSweep, side, worst.tree) EXCEPT
                 !.ret = [tag |-> "SomeError", id |-> 0]]
        ELSE IF evicting /\ ~worstPush.ok
        THEN [WithSide(afterSweep, side, worst.tree) EXCEPT
                 !.ret = [tag |-> "Panic", id |-> 0]]
        ELSE IF ~inserted.ok
        THEN [afterEvict EXCEPT !.ret = [tag |-> "InsertError", id |-> 0]]
        ELSE [WithSide(afterEvict, side, inserted.tree) EXCEPT
                 !.ret = [tag |-> "Some", id |-> order_id]]

\* new_order: the book, queue and market it leaves and what it returns
new_order(bidsV, asksV, order, mkt, eq, account_pk, now_ts, limit) ==
    LET side == order.side
        other_side == invert_side(side)
        pr == Order_price(order)
        price_lots == pr[1]
        gen == gen_order_id(mkt, side, pr[2])
        order_id == gen.id
        opposing_bookside == IF other_side = Bid THEN bidsV ELSE asksV
        st == MatchLoop(order, account_pk, now_ts, price_lots,
                        iter_all_including_invalid(opposing_bookside, now_ts), 1,
                        WalkStart(order, eq, limit))
        total_quote_lots_taken == order.max_quote_lots - st.remaining_quote_lots
        total_base_lots_taken == order.max_base_lots - st.remaining_base_lots
        changed == ApplyChanges(opposing_bookside, st.orders_to_change, 1)
        deleted == ApplyDeletes(changed, st.orders_to_delete, 1)
        matched == WithSide(Outcome(bidsV, asksV, st.queue, gen.market, "None", 0),
                            other_side, deleted.tree)
        book_base_quantity == BookBaseQuantity(st.remaining_base_lots,
                                               st.remaining_quote_lots, price_lots)
        post_target == st.post_target /\ ~NothingToPost(book_base_quantity)
    IN  IF st.halt = "WouldSelfTrade"
        THEN Outcome(bidsV, asksV, st.queue, gen.market, "WouldSelfTrade", 0)
        ELSE IF st.halt \in {"Panic", "AssertFailed"}
        THEN Outcome(bidsV, asksV, st.queue, gen.market, st.halt, 0)
        ELSE IF ~(total_quote_lots_taken >= 0 /\ total_base_lots_taken >= 0)
        THEN Outcome(bidsV, asksV, st.queue, gen.market, "AssertFailed", 0)
        ELSE IF ~deleted.ok
        THEN [matched EXCEPT !.ret = [tag |-> "Panic", id |-> 0]]
        ELSE IF price_lots = 0
        THEN \* remaining_quote_lots / price_lots divides by zero
             [matched EXCEPT !.ret = [tag |-> "Panic", id |-> 0]]
        ELSE IF post_target
        THEN PostRemainder(order, account_pk, now_ts, price_lots, order_id,
                           book_base_quantity, matched)
        ELSE matched

CancelKeepsLeaf(bidsV, asksV, account_pk, id, side) ==
    LET found == LeafByKey(IF side = Bid THEN bidsV ELSE asksV, id)
    IN  [bids |-> bidsV, asks |-> asksV,
         ret |-> IF found = {} THEN [tag |-> "PerpOrderIdNotFound", leaf |-> {}]
                 ELSE [tag |-> "Ok", leaf |-> found]]

\* cancel_order_by_id: the book it leaves and what it returns
cancel_order_by_id(bidsV, asksV, account_pk, id, side) ==
    LET r == remove_by_key(IF side = Bid THEN bidsV ELSE asksV, id)
        after == IF side = Bid THEN [bids |-> r.tree, asks |-> asksV]
                 ELSE [bids |-> bidsV, asks |-> r.tree]
    IN  IF r.removed = {}
        THEN [bids |-> bidsV, asks |-> asksV,
              ret |-> [tag |-> "PerpOrderIdNotFound", leaf |-> {}]]
        ELSE IF (CHOOSE l \in r.removed : TRUE).owner # account_pk
        THEN [bids |-> after.bids, asks |-> after.asks,
              ret |-> [tag |-> "SomeError", leaf |-> {}]]
        ELSE [bids |-> after.bids, asks |-> after.asks,
              ret |-> [tag |-> "Ok", leaf |-> r.removed]]

-----------------------------------------------------------------------------
(* The callers' inputs *)

Accounts == {"alice", "bob"}

ClientOrderIds == {7}

SelfTradeBehaviors == {"DecrementTake", "CancelProvide", "AbortTransaction"}

OrderParams ==
    {[kind |-> "Market", price_lots |-> 0, order_type |-> "Limit"]}
    \cup {[kind |-> "ImmediateOrCancel", price_lots |-> p, order_type |-> "Limit"] :
             p \in 1 .. MaxPrice}
    \cup {[kind |-> "Fixed", price_lots |-> p, order_type |-> t] :
             p \in 1 .. MaxPrice, t \in {"Limit", "PostOnly"}}

\* the orders whose budgets, expiry and self-trade policy are drawn from the given sets
OrdersOver(bases, quotes, tifs, stbs, params) ==
    [side : Sides,
     max_base_lots : bases,
     max_quote_lots : quotes,
     client_order_id : ClientOrderIds,
     time_in_force : tifs,
     self_trade_behavior : stbs,
     params : params]

CallsOver(orders, limits) == [order : orders, account_pk : Accounts, limit : limits]

PostingParams == {p \in OrderParams : p.kind = "Fixed" /\ p.order_type = "Limit"}

\* The calls of a behaviour.  Each departs from an order of unbounded quote
\* budget, no expiry, DecrementTake and the full match limit in one respect: its
\* budgets, its expiry, or its self-trade policy and match limit.
BudgetCalls ==
    CallsOver(OrdersOver(1 .. MaxBase, (1 .. MaxQuote) \cup {I64_MAX}, {0},
                         {"DecrementTake"}, OrderParams), {MaxLimit})
    \cup CallsOver(OrdersOver({0}, {I64_MAX}, {0}, {"DecrementTake"}, OrderParams),
                   {MaxLimit})
    \cup CallsOver(OrdersOver({MaxBase}, {0}, {0}, {"DecrementTake"}, OrderParams),
                   {MaxLimit})

ExpiringCalls ==
    CallsOver(OrdersOver({MaxBase}, {I64_MAX}, 1 .. MaxTif, {"DecrementTake"},
                         PostingParams), {MaxLimit})

PolicyCalls ==
    CallsOver(OrdersOver({MaxBase}, {I64_MAX}, {0}, SelfTradeBehaviors, OrderParams),
              0 .. MaxLimit)

Calls == BudgetCalls \cup ExpiringCalls \cup PolicyCalls

-----------------------------------------------------------------------------
(* The state machine.  call.pc is "idle" between calls and "returned" right *)
(* after new_order has returned to its caller; call then holds the          *)
(* arguments, the state the call started from and the value returned.       *)

IdleCall == [pc |-> "idle"]

Init ==
    /\ bids = OrderTree_new("Bids")
    /\ asks = OrderTree_new("Asks")
    /\ event_queue = EventQueue_zeroed
    /\ market = [seq_num |-> 0]
    /\ now = 0
    /\ call = IdleCall

NewOrder ==
    /\ call.pc = "idle"
    /\ market.seq_num < MaxOrders
    /\ \E c \in Calls :
       \E res \in {new_order(bids, asks, c.order, market, event_queue, c.account_pk,
                               now, c.limit)} :
          /\ bids' = res.bids
          /\ asks' = res.asks
          /\ event_queue' = res.event_queue
          /\ market' = res.market
          /\ call' = [pc |-> "returned", order |-> c.order, account_pk |-> c.account_pk,
                      now_ts |-> now, limit |-> c.limit,
                      bids |-> bids, asks |-> asks, event_queue |-> event_queue,
                      market |-> market, ret |-> res.ret]
    /\ UNCHANGED now

\* the caller takes the result (the result of the last call of a behaviour stays)
Return ==
    /\ call.pc = "returned"
    /\ market.seq_num < MaxOrders
    /\ call' = IdleCall
    /\ UNCHANGED <<bids, asks, event_queue, market, now>>

\* time passes between calls
Tick ==
    /\ call.pc = "idle"
    /\ now < MaxNow
    /\ now' = now + 1
    /\ UNCHANGED <<bids, asks, event_queue, market, call>>

Next == NewOrder \/ Return \/ Tick

Spec == Init /\ [][Next]_vars

-----------------------------------------------------------------------------
(* A deep book.  Up to DeepMakers bids are posted at one price while the     *)
(* clock stands at 0, by bob with an expiry, by bob without, or by alice     *)
(* without; once the clock has advanced alice sends one ask against them.   *)
(* The arena is large enough for all of them.                                *)

DeepMakers == 9    \* bids posted before the taker comes
DeepNodes == 17    \* capacity of the node arena of one BookSide

DeepMakerOrders ==
    {[side |-> Bid, max_base_lots |-> 1, max_quote_lots |-> I64_MAX,
      client_order_id |-> 7, time_in_force |-> t, self_trade_behavior |-> "DecrementTake",
      params |-> [kind |-> "Fixed", price_lots |-> 1, order_type |-> "Limit"]] :
        t \in 0 .. MaxTif}

DeepMakerCalls ==
    {c \in CallsOver(DeepMakerOrders, {MaxLimit}) :
        c.order.time_in_force > 0 => c.account_pk = "bob"}

DeepTakerOrders ==
    {[side |-> Ask, max_base_lots |-> MaxBase, max_quote_lots |-> I64_MAX,
      client_order_id |-> 7, time_in_force |-> 0, self_trade_behavior |-> stb,
      params |-> [kind |-> "Fixed", price_lots |-> 1, order_type |-> "Limit"]] :
        stb \in SelfTradeBehaviors}

DeepTakerCalls == [order : DeepTakerOrders, account_pk : {"alice"}, limit : 0 .. MaxLimit]

DeepInit ==
    /\ bids = OrderTree_sized("Bids", DeepNodes)
    /\ asks = OrderTree_sized("Asks", DeepNodes)
    /\ event_queue = EventQueue_zeroed
    /\ market = [seq_num |-> 0]
    /\ now = 0
    /\ call = IdleCall

\* a maker posts and takes the result at once
DeepPost ==
    /\ call.pc = "idle"
    /\ now = 0
    /\ market.seq_num < DeepMakers
    /\ \E c \in DeepMakerCalls :
       \E res \in {new_order(bids, asks, c.order, market, event_queue, c.account_pk,
                               now, c.limit)} :
          /\ bids' = res.bids
          /\ asks' = res.asks
          /\ event_queue' = res.event_queue
          /\ market' = res.market
    /\ UNCHANGED <<now, call>>

\* the taker's call; its result stays
DeepTake ==
    /\ call.pc = "idle"
    /\ now > 0
    /\ \E c \in DeepTakerCalls :
       \E res \in {new_order(bids, asks, c.order, market, event_queue, c.account_pk,
                               now, c.limit)} :
          /\ bids' = res.bids
          /\ asks' = res.asks
          /\ event_queue' = res.event_queue
          /\ market' = res.market
          /\ call' = [pc |-> "returned", order |-> c.order, account_pk |-> c.account_pk,
                      now_ts |-> now, limit |-> c.limit,
                      bids |-> bids, asks |-> asks, event_queue |-> event_queue,
                      market |-> market, ret |-> res.ret]
    /\ UNCHANGED now

DeepNext == DeepPost \/ Tick \/ DeepTake

DeepSpec == DeepInit /\ [][DeepNext]_vars

-----------------------------------------------------------------------------
(* Cancelling: accounts post orders of no expiry and cancel by id.  call.pc *)
(* is "cancelled" right after cancel_order_by_id has returned.              *)

CancelPostCalls ==
    CallsOver(OrdersOver({1}, {I64_MAX}, {0}, {"DecrementTake"}, PostingParams),
              {MaxLimit})

\* the ids a caller may ask to cancel: those resting on either side, and one
\* that never rests
CancelIds == Keys(bids) \cup Keys(asks) \cup {0}

CancelPost ==
    /\ call.pc = "idle"
    /\ market.seq_num < MaxOrders
    /\ \E c \in CancelPostCalls :
       \E res \in {new_order(bids, asks, c.order, market, event_queue, c.account_pk,
                               now, c.limit)} :
          /\ bids' = res.bids
          /\ asks' = res.asks
          /\ event_queue' = res.event_queue
          /\ market' = res.market
    /\ UNCHANGED <<now, call>>

CancelOrder ==
    /\ call.pc = "idle"
    /\ \E account_pk \in Accounts, id \in CancelIds, side \in Sides :
       \E res \in {cancel_order_by_id(bids, asks, account_pk, id, side)} :
          /\ bids' = res.bids
          /\ asks' = res.asks
          /\ call' = [pc |-> "cancelled", account_pk |-> account_pk, id |-> id,
                      side |-> side, bids |-> bids, asks |-> asks,
                      event_queue |-> event_queue, market |-> market, ret |-> res.ret]
    /\ UNCHANGED <<event_queue, market, now>>

CancelReturn ==
    /\ call.pc = "cancelled"
    /\ call' = IdleCall
    /\ UNCHANGED <<bids, asks, event_queue, market, now>>

CancelNext == CancelPost \/ CancelOrder \/ CancelReturn

CancelSpec == Init /\ [][CancelNext]_vars

-----------------------------------------------------------------------------
(* The event queue on its own: a producer pushes events that carry the      *)
(* header's seq_num, a consumer pops them, pushes are reverted.  call holds  *)
(* the queue the last operation started from, its argument and its result.  *)

RingSlots == 3     \* events the buf of the queue holds
RingPushes == 5    \* the header's seq_num stays below this

\* the events a producer pushes on the queue eq
RingEvents(eq) ==
    {OutEvent_from_leaf_node(Bid, 0, eq.seq_num,
                             LeafNode_new(0, owner, 1, 0, "Limit", 0, 7)) :
         owner \in Accounts}

RingInit ==
    /\ bids = OrderTree_new("Bids")
    /\ asks = OrderTree_new("Asks")
    /\ event_queue = EventQueue_sized(RingSlots)
    /\ market = [seq_num |-> 0]
    /\ now = 0
    /\ call = IdleCall

RingPush ==
    /\ event_queue.seq_num < RingPushes
    /\ \E value \in RingEvents(event_queue) :
       \E res \in {push_back(event_queue, value)} :
          /\ event_queue' = res.queue
          /\ call' = [pc |-> "pushed", queue |-> event_queue, value |-> value,
                      ok |-> res.ok, err |-> res.err]
    /\ UNCHANGED <<bids, asks, market, now>>

RingPop ==
    /\ \E res \in {pop_front(event_queue)} :
          /\ event_queue' = res.queue
          /\ call' = [pc |-> "popped", queue |-> event_queue, ok |-> res.ok,
                      value |-> res.value]
    /\ UNCHANGED <<bids, asks, market, now>>

RingRevert ==
    /\ \E desired_len \in 0 .. RingSlots :
       \E res \in {revert_pushes(event_queue, desired_len)} :
          /\ event_queue' = res.queue
          /\ call' = [pc |-> "reverted", queue |-> event_queue,
                      desired_len |-> desired_len, ok |-> res.ok]
    /\ UNCHANGED <<bids, asks, market, now>>

RingNext == RingPush \/ RingPop \/ RingRevert

RingSpec == RingInit /\ [][RingNext]_vars

-----------------------------------------------------------------------------
(* Orders against a short event queue that a consumer drains: the calls post *)
(* and take at one price, the consumer pops between calls.                   *)

DrainSlots == 2     \* events the buf of the queue holds
DrainOrders == 5    \* new_order calls of a behaviour

DrainCalls ==
    CallsOver(OrdersOver({1, MaxBase}, {I64_MAX}, {0}, {"DecrementTake"},
                         {[kind |-> "Fixed", price_lots |-> 1, order_type |-> "Limit"]}),
              {MaxLimit})

DrainInit ==
    /\ bids = OrderTree_new("Bids")
    /\ asks = OrderTree_new("Asks")
    /\ event_queue = EventQueue_sized(DrainSlots)
    /\ market = [seq_num |-> 0]
    /\ now = 0
    /\ call = IdleCall

DrainOrder ==
    /\ call.pc = "idle"
    /\ market.seq_num < DrainOrders
    /\ \E c \in DrainCalls :
       \E res \in {new_order(bids, asks, c.order, market, event_queue, c.account_pk,
                               now, c.limit)} :
          /\ bids' = res.bids
          /\ asks' = res.asks
          /\ event_queue' = res.event_queue
          /\ market' = res.market
          /\ call' = [pc |-> "returned", order |-> c.order, account_pk |-> c.account_pk,
                      now_ts |-> now, limit |-> c.limit,
                      bids |-> bids, asks |-> asks, event_queue |-> event_queue,
                      market |-> market, ret |-> res.ret]
    /\ UNCHANGED now

\* the consumer takes the oldest event
DrainPop ==
    /\ call.pc = "idle"
    /\ \E res \in {pop_front(event_queue)} :
          /\ event_queue' = res.queue
          /\ call' = [pc |-> "popped", queue |-> event_queue, ok |-> res.ok,
                      value |-> res.value]
    /\ UNCHANGED <<bids, asks, market, now>>

\* the caller takes the result; a call that panicked has no caller to return to
DrainReturn ==
    /\ \/ call.pc = "popped"
       \/ call.pc = "returned" /\ call.ret.tag \notin {"Panic", "AssertFailed"}
    /\ call' = IdleCall
    /\ UNCHANGED <<bids, asks, event_queue, market, now>>

DrainNext == DrainOrder \/ DrainPop \/ DrainReturn

DrainSpec == DrainInit /\ [][DrainNext]_vars

-----------------------------------------------------------------------------
(* Orders at a price that is zero or negative, on a book of orders at       *)
(* positive prices.                                                         *)

BadPrices == {-1, 0}

BadPriceParams ==
    {[kind |-> "ImmediateOrCancel", price_lots |-> p, order_type |-> "Limit"] :
         p \in BadPrices}
    \cup {[kind |-> "Fixed", price_lots |-> p, order_type |-> t] :
             p \in BadPrices, t \in {"Limit", "PostOnly"}}

BadPriceCalls ==
    CallsOver(OrdersOver({MaxBase}, {MaxQuote, I64_MAX}, {0}, {"DecrementTake"},
                         BadPriceParams), {MaxLimit})

BadPriceOrder ==
    /\ call.pc = "idle"
    /\ market.seq_num < MaxOrders
    /\ \E c \in BadPriceCalls :
       \E res \in {new_order(bids, asks, c.order, market, event_queue, c.account_pk,
                               now, c.limit)} :
          /\ bids' = res.bids
          /\ asks' = res.asks
          /\ event_queue' = res.event_queue
          /\ market' = res.market
          /\ call' = [pc |-> "returned", order |-> c.order, account_pk |-> c.account_pk,
                      now_ts |-> now, limit |-> c.limit,
                      bids |-> bids, asks |-> asks, event_queue |-> event_queue,
                      market |-> market, ret |-> res.ret]
    /\ UNCHANGED now

BadPriceNext == CancelPost \/ BadPriceOrder \/ DrainReturn

BadPriceSpec == Init /\ [][BadPriceNext]_vars

-----------------------------------------------------------------------------
(* Asking a book side for its depth: accounts post, then a caller asks how  *)
(* many base lots consume an amount of quote lots.  call holds the answer   *)
(* and what matched_amount makes of it.                                     *)

MaxAmount == 4    \* the quote lots a caller asks about

DepthQuery ==
    /\ call.pc = "idle"
    /\ \E side \in Sides, amount \in 0 .. MaxAmount :
       \E bs \in {IF side = Bid THEN bids ELSE asks} :
       \E q \in {matched_quantity(bs, amount, now)} :
          call' = [pc |-> "asked", side |-> side, amount |-> amount, now_ts |-> now,
                   quantity |-> q,
                   filled |-> UNION {matched_amount(bs, x, now) : x \in q},
                   filled_one_less |-> UNION {matched_amount(bs, x - 1, now) : x \in q}]
    /\ UNCHANGED <<bids, asks, event_queue, market, now>>

DepthReturn ==
    /\ call.pc = "asked"
    /\ call' = IdleCall
    /\ UNCHANGED <<bids, asks, event_queue, market, now>>

DepthNext == CancelPost \/ DepthQuery \/ DepthReturn

DepthSpec == Init /\ [][DepthNext]_vars

-----------------------------------------------------------------------------
(* A book side alone: leaves are inserted under generated ids, removed by   *)
(* key, and the side is asked to remove its worst leaf or one expired leaf. *)
(* call.pc is "removed_worst" or "removed_expired" right after such a       *)
(* removal; call holds the side as it was and what the removal returned.    *)
(* One behaviour builds one side, as the tests of bookside.rs do.           *)

TreeNodes == 7     \* nodes of each arena
TreeLeaves == 4    \* ids generated in one behaviour
TreeNow == 2       \* the clock stops here
TreeTif == 2       \* the longest time in force

TreeInit ==
    /\ bids = OrderTree_sized("Bids", TreeNodes)
    /\ asks = OrderTree_sized("Asks", TreeNodes)
    /\ event_queue = EventQueue_zeroed
    /\ market = [seq_num |-> 0]
    /\ now = 0
    /\ call = IdleCall

TreeInsert ==
    /\ call.pc = "idle"
    /\ market.seq_num < TreeLeaves
    /\ \E side \in Sides, price_lots \in 1 .. MaxPrice, tif \in 0 .. TreeTif :
       \E gen \in {gen_order_id(market, side, AsU64(price_lots))} :
       \E res \in {insert_leaf(bookside([bids |-> bids, asks |-> asks], side),
                                 LeafNode_new(gen.id, "alice", 1, now, "Limit", tif, 7))} :
          /\ res.ok
          /\ bookside([bids |-> bids, asks |-> asks], invert_side(side)).bump_index = 0
          /\ bids' = IF side = Bid THEN res.tree ELSE bids
          /\ asks' = IF side = Ask THEN res.tree ELSE asks
          /\ market' = gen.market
    /\ UNCHANGED <<event_queue, now, call>>

TreeRemoveByKey ==
    /\ call.pc = "idle"
    /\ \E side \in Sides :
       \E bs \in {bookside([bids |-> bids, asks |-> asks], side)} :
       \E key \in Keys(bs) :
       \E res \in {remove_by_key(bs, key)} :
          /\ bids' = IF side = Bid THEN res.tree ELSE bids
          /\ asks' = IF side = Ask THEN res.tree ELSE asks
    /\ UNCHANGED <<event_queue, market, now, call>>

TreeRemoveWorst ==
    /\ call.pc = "idle"
    /\ \E side \in Sides :
       \E bs \in {bookside([bids |-> bids, asks |-> asks], side)} :
       \E res \in {remove_worst(bs, now)} :
          /\ bids' = IF side = Bid THEN res.tree ELSE bids
          /\ asks' = IF side = Ask THEN res.tree ELSE asks
          /\ call' = [pc |-> "removed_worst", side |-> side, now_ts |-> now,
                      tree |-> bs, ret |-> [removed |-> res.removed, price |-> res.price]]
    /\ UNCHANGED <<event_queue, market, now>>

TreeRemoveOneExpired ==
    /\ call.pc = "idle"
    /\ \E side \in Sides :
       \E bs \in {bookside([bids |-> bids, asks |-> asks], side)} :
       \E res \in {remove_one_expired(bs, now)} :
          /\ bids' = IF side = Bid THEN res.tree ELSE bids
          /\ asks' = IF side = Ask THEN res.tree ELSE asks
          /\ call' = [pc |-> "removed_expired", side |-> side, now_ts |-> now,
                      tree |-> bs, ret |-> [removed |-> res.removed]]
    /\ UNCHANGED <<event_queue, market, now>>

TreeTick ==
    /\ call.pc = "idle"
    /\ now < TreeNow
    /\ now' = now + 1
    /\ UNCHANGED <<bids, asks, event_queue, market, call>>

TreeReturn ==
    /\ call.pc \in {"removed_worst", "removed_expired"}
    /\ call' = IdleCall
    /\ UNCHANGED <<bids, asks, event_queue, market, now>>

TreeNext ==
    TreeInsert \/ TreeRemoveByKey \/ TreeRemoveWorst \/ TreeRemoveOneExpired
        \/ TreeTick \/ TreeReturn

TreeSpec == TreeInit /\ [][TreeNext]_vars

-----------------------------------------------------------------------------
(* A book whose arenas hold an even number of nodes: accounts send orders   *)
(* of one or two lots and no expiry until a side has no room.               *)

EvenNodes == 4     \* nodes of each arena
EvenOrders == 4    \* calls of one behaviour

EvenCalls ==
    CallsOver(OrdersOver(1 .. MaxBase, {I64_MAX}, {0}, {"DecrementTake"}, PostingParams),
              {MaxLimit})

EvenInit ==
    /\ bids = OrderTree_sized("Bids", EvenNodes)
    /\ asks = OrderTree_sized("Asks", EvenNodes)
    /\ event_queue = EventQueue_zeroed
    /\ market = [seq_num |-> 0]
    /\ now = 0
    /\ call = IdleCall

EvenOrder ==
    /\ call.pc = "idle"
    /\ market.seq_num < EvenOrders
    /\ \E c \in EvenCalls :
       \E res \in {new_order(bids, asks, c.order, market, event_queue, c.account_pk,
                               now, c.limit)} :
          /\ bids' = res.bids
          /\ asks' = res.asks
          /\ event_queue' = res.event_queue
          /\ market' = res.market
          /\ call' = [pc |-> "returned", order |-> c.order, account_pk |-> c.account_pk,
                      now_ts |-> now, limit |-> c.limit,
                      bids |-> bids, asks |-> asks, event_queue |-> event_queue,
                      market |-> market, ret |-> res.ret]
    /\ UNCHANGED now

EvenReturn ==
    /\ call.pc = "returned"
    /\ market.seq_num < EvenOrders
    /\ call' = IdleCall
    /\ UNCHANGED <<bids, asks, event_queue, market, now>>

EvenNext == EvenOrder \/ EvenReturn

EvenSpec == EvenInit /\ [][EvenNext]_vars

-----------------------------------------------------------------------------
(* What a call that has just returned did, read off the state it started    *)
(* from (held in call) and the state it left.                               *)

Returned == call.pc = "returned"

\* Ok(Some(_)) or Ok(None)
Succeeded == Returned /\ call.ret.tag \in {"Some", "None"}

TakerSide == call.order.side

LimitPrice == Order_price(call.order)[1]

\* the id generated for the order of the call
OrderId == gen_order_id(call.market, TakerSide, Order_price(call.order)[2]).id

OpposingBefore == bookside(call, invert_side(TakerSide))
OpposingAfter == IF TakerSide = Bid THEN asks ELSE bids
OwnBefore == bookside(call, TakerSide)
OwnAfter == IF TakerSide = Bid THEN bids ELSE asks

\* the opposing side as the call walked it
Walk == iter_all_including_invalid(OpposingBefore, call.now_ts)

\* the events the call pushed, in the order pushed
Pushed ==
    SubSeq(queue_iter(event_queue), call.event_queue.count + 1, event_queue.count)

IsFill(e) == e.event_type = "Fill"

Fills == SelectSeq(Pushed, IsFill)

RECURSIVE SeqSum(_)
SeqSum(s) == IF s = <<>> THEN 0 ELSE Head(s) + SeqSum(Tail(s))

FilledBase == SeqSum([i \in 1 .. Len(Fills) |-> Fills[i].quantity])
FilledQuote == SeqSum([i \in 1 .. Len(Fills) |-> Fills[i].price * Fills[i].quantity])

RemainingBase == call.order.max_base_lots - FilledBase
RemainingQuote == call.order.max_quote_lots - FilledQuote

\* the maker of a Fill as it rested before the call
MakerBefore(fill) == CHOOSE l \in OpposingBefore.leaves : l.key = fill.maker_order_id

PriceOf(leaf) == fixed_price_lots(price_data(leaf))

Beyond(side, p, limit) == IF side = Bid THEN p > limit ELSE p < limit

\* the seq a key of the given side carries
SeqOf(side, leaf) ==
    IF side = Bid THEN U64_MAX - (leaf.key % WordSpan) ELSE leaf.key % WordSpan

\* leaf a of a book side goes before leaf b: better price, or the price of b and
\* a lower seq
HigherPriority(side, a, b) ==
    \/ IF side = Bid THEN PriceOf(a) > PriceOf(b) ELSE PriceOf(a) < PriceOf(b)
    \/ PriceOf(a) = PriceOf(b) /\ SeqOf(side, a) < SeqOf(side, b)

\* the keys of the opposing leaves the call filled, dropped or cancelled
TouchedOpposing ==
    {Pushed[i].maker_order_id : i \in {j \in 1 .. Len(Pushed) : IsFill(Pushed[j])}}
    \cup {Pushed[i].order_id :
              i \in {j \in 1 .. Len(Pushed) :
                         ~IsFill(Pushed[j]) /\ Pushed[j].side = invert_side(TakerSide)}}

\* Walk[k] is the first leaf of the walk the call left alone, it is valid, and
\* what is left of the quote budget buys not one lot at its price although both
\* budgets have something left
QuoteStopAt(k) ==
    /\ item_is_valid(Walk[k])
    /\ \A j \in 1 .. Len(Walk) : Walk[j].handle \in TouchedOpposing <=> j < k
    /\ RemainingBase >= 1
    /\ RemainingQuote >= 1
    /\ RemainingQuote \div Walk[k].price_lots = 0

-----------------------------------------------------------------------------
(* Claims *)

\* C1: every Fill a new_order call pushes is against a maker that rested on the
\* opposing side, at that maker's price, and the price is within the taker's
\* limit: at most the order price for a Bid taker, at least it for an Ask taker.
C1_FillWithinLimit ==
    Returned =>
        \A i \in 1 .. Len(Fills) :
            /\ Fills[i].maker_order_id \in Keys(OpposingBefore)
            /\ Fills[i].price = PriceOf(MakerBefore(Fills[i]))
            /\ ~Beyond(TakerSide, Fills[i].price, LimitPrice)

\* a call that filled, stopped at a maker priced beyond its limit and had base left
C1_Witness ==
    /\ Returned
    /\ Len(Fills) >= 1
    /\ RemainingBase >= 1
    /\ \E l \in OpposingBefore.leaves :
          /\ Beyond(TakerSide, PriceOf(l), LimitPrice)
          /\ ~is_expired(l, call.now_ts)
          /\ l \in OpposingAfter.leaves

\* C2: with budgets >= 0 the Fill quantities of a call sum to at most
\* max_base_lots and the Fill price * quantity to at most max_quote_lots (the
\* remainders are never negative), and no assertion of new_order fails.
C2_BudgetsRespected ==
    (Returned /\ call.order.max_base_lots >= 0 /\ call.order.max_quote_lots >= 0) =>
        /\ FilledBase <= call.order.max_base_lots
        /\ FilledQuote <= call.order.max_quote_lots
        /\ call.ret.tag # "AssertFailed"

\* a call whose fills were cut short by its quote budget, not by its base budget
C2_Witness ==
    /\ Returned
    /\ Len(Fills) >= 1
    /\ RemainingBase >= 1
    /\ RemainingQuote < call.order.max_quote_lots
    /\ call.order.max_quote_lots < I64_MAX
    /\ \E i \in 1 .. Len(Fills) : Fills[i].quantity < MakerBefore(Fills[i]).quantity

C4_PriceTimePriority ==
    /\ (Returned /\ call.ret.tag = "Some") =>
          \A l \in LeafByKey(OwnAfter, call.ret.id) :
              PriceOf(l) = LimitPrice /\ SeqOf(TakerSide, l) = call.market.seq_num + 1
    /\ \A bs \in {bids, asks} :
          LET it == iter_all_including_invalid(bs, now)
          IN  \A i, j \in 1 .. Len(it) :
                  i < j => HigherPriority(tree_side(bs), it[i].node, it[j].node)
    /\ Returned =>
          \A i, j \in 1 .. Len(Fills) :
              i < j => HigherPriority(invert_side(TakerSide), MakerBefore(Fills[i]),
                                      MakerBefore(Fills[j]))

\* an ask that filled two bids resting at one price, the earlier posted first
C4_Witness ==
    /\ Returned
    /\ TakerSide = Ask
    /\ Len(Fills) = 2
    /\ Fills[1].price = Fills[2].price
    /\ SeqOf(Bid, MakerBefore(Fills[1])) < SeqOf(Bid, MakerBefore(Fills[2]))
    /\ MakerBefore(Fills[1]).key > MakerBefore(Fills[2]).key

\* C5: within a successful call, if a Fill is pushed against maker B then every
\* opposing leaf A that is valid at now_ts and of strictly higher priority than B
\* has been removed from the book by this call.
C5_StrictPriority ==
    Succeeded =>
        \A i \in 1 .. Len(Fills) :
            \A a \in OpposingBefore.leaves :
                (/\ ~is_expired(a, call.now_ts)
                 /\ HigherPriority(invert_side(TakerSide), a, MakerBefore(Fills[i])))
                => a.key \notin Keys(OpposingAfter)

\* C6: for each Fill of quantity m of a successful call against a maker resting
\* with quantity q: if m < q the maker leaf is still on the book at its key with
\* quantity q - m and every other field as before, and the Fill has maker_out 0;
\* if m = q the leaf is gone from the book and the Fill has maker_out 1.
C6_MakerDisposition ==
    Succeeded =>
        \A i \in 1 .. Len(Fills) :
            LET maker == MakerBefore(Fills[i])
                m == Fills[i].quantity
                q == maker.quantity
            IN  /\ m <= q
                /\ m < q =>
                      /\ LeafByKey(OpposingAfter, maker.key) =
                             {[maker EXCEPT !.quantity = q - m]}
                      /\ Fills[i].maker_out = 0
                /\ m = q =>
                      /\ LeafByKey(OpposingAfter, maker.key) = {}
                      /\ Fills[i].maker_out = 1

\* a call that filled one maker whole and the next one in part
C6_Witness ==
    /\ Succeeded
    /\ \E i, j \in 1 .. Len(Fills) :
          /\ Fills[i].quantity = MakerBefore(Fills[i]).quantity
          /\ Fills[j].quantity < MakerBefore(Fills[j]).quantity

\* the leaf new_order is to post for the order of the call: what is left of the
\* budgets after the Fills decides its quantity
PostedLeaves ==
    {l \in OwnAfter.leaves :
        /\ l.key = OrderId
        /\ l.owner = call.account_pk
        /\ l.timestamp = call.now_ts
        /\ l.time_in_force = call.order.time_in_force
        /\ l.client_order_id = call.order.client_order_id
        /\ l.quantity = Min(RemainingBase, RemainingQuote \div LimitPrice)
        /\ l.quantity >= 1}

C8_TakersNeverPost ==
    (Returned /\ call.order.params.kind \in {"Market", "ImmediateOrCancel"}) =>
        /\ call.ret.tag # "Some"
        /\ LeafByKey(OwnAfter, OrderId) = {}

PostOnlyCall ==
    Returned /\ call.order.params.kind = "Fixed" /\ call.order.params.order_type = "PostOnly"

\* the best valid opposing leaf is within the order's price limit
WouldMatch ==
    \E k \in 1 .. Len(Walk) :
        /\ item_is_valid(Walk[k])
        /\ \A j \in 1 .. (k - 1) : ~item_is_valid(Walk[j])
        /\ ~Beyond(TakerSide, Walk[k].price_lots, LimitPrice)

\* C9: a PostOnly call pushes no Fill and leaves every opposing leaf that is
\* valid at now_ts on the book with its quantity.
C9_PostOnlyNeverTakes ==
    PostOnlyCall =>
        /\ Fills = <<>>
        /\ \A a \in OpposingBefore.leaves :
              ~is_expired(a, call.now_ts) =>
                  \E b \in OpposingAfter.leaves : b.key = a.key /\ b.quantity = a.quantity

\* a PostOnly call that dropped an expired maker and then met a valid one it
\* could have taken from
C9_Witness ==
    /\ PostOnlyCall
    /\ WouldMatch
    /\ call.order.max_base_lots >= 1
    /\ call.order.max_quote_lots >= LimitPrice
    /\ Len(Pushed) >= 1

\* C10 as stated: a PostOnly order that would match is posted on its own side
\* and new_order returns Some(order_id).
C10_PostOnlyPosted ==
    (/\ PostOnlyCall
     /\ WouldMatch
     /\ call.order.max_base_lots >= 1
     /\ call.order.max_quote_lots >= LimitPrice)
    => /\ call.ret.tag = "Some"
       /\ PostedLeaves # {}

\* C10, amended: a PostOnly order that would match neither takes nor is posted:
\* no Fill is pushed, the taker's own side is as before, new_order returns
\* Ok(None).
C10_PostOnlyDoesNothing ==
    (PostOnlyCall /\ WouldMatch) =>
        /\ call.ret.tag = "None"
        /\ Fills = <<>>
        /\ OwnAfter = OwnBefore

\* a PostOnly call with budgets to post that would have matched
C10_Witness ==
    /\ PostOnlyCall
    /\ WouldMatch
    /\ Min(call.order.max_base_lots, call.order.max_quote_lots \div LimitPrice) >= 1
    /\ call.ret.tag = "None"

\* Walk[k] is the first leaf of the walk the call left alone, and it is valid
\* and within the order's price limit
StoppedAtMatchable(k) ==
    /\ item_is_valid(Walk[k])
    /\ \A j \in 1 .. Len(Walk) : Walk[j].handle \in TouchedOpposing <=> j < k
    /\ ~Beyond(TakerSide, Walk[k].price_lots, LimitPrice)

\* C11: one call pushes at most match_limit Fill events, none when match_limit
\* is 0; the counter, which starts at match_limit and goes down by one with each
\* Fill, never goes below 0.
C11_MatchLimitCap ==
    Returned =>
        /\ Len(Fills) <= call.limit
        /\ call.limit - Len(Fills) >= 0
        /\ call.limit = 0 => Fills = <<>>

\* a call that used up its match limit with budgets left and a maker to take from
C11_Witness ==
    /\ Returned
    /\ call.limit >= 1
    /\ Len(Fills) = call.limit
    /\ RemainingBase >= 1
    /\ \E k \in 1 .. Len(Walk) :
          StoppedAtMatchable(k) /\ RemainingQuote >= Walk[k].price_lots

\* the walk of a Fixed Limit order stopped at a valid maker within the price
\* limit because the match limit was used up, with a remainder left to post
MatchLimitExhausted ==
    /\ Returned
    /\ call.order.params.kind = "Fixed" /\ call.order.params.order_type = "Limit"
    /\ Len(Fills) = call.limit
    /\ RemainingBase >= 1
    /\ RemainingQuote >= 1
    /\ \E k \in 1 .. Len(Walk) : StoppedAtMatchable(k)
    /\ Min(RemainingBase, RemainingQuote \div LimitPrice) >= 1

\* C12 as stated: when the match limit is used up in front of a valid maker
\* within the price limit, the remainder of a Fixed Limit order is posted and
\* new_order returns Some(order_id).
C12_LimitExhaustedPosts ==
    MatchLimitExhausted => (call.ret.tag = "Some" /\ PostedLeaves # {})

\* C12, amended: in that case the remainder is not posted: the taker's own side
\* is as before and new_order returns Ok(None); the Fills made so far stand.
C12_LimitExhaustedDrops ==
    MatchLimitExhausted =>
        /\ call.ret.tag = "None"
        /\ OwnAfter = OwnBefore
        /\ LeafByKey(OwnAfter, OrderId) = {}

\* a call that filled one maker, used up its match limit in front of the next
\* and had a remainder
C12_Witness ==
    /\ MatchLimitExhausted
    /\ Len(Fills) >= 1
    /\ call.ret.tag = "None"

\* a leaf is expired at t: it has a time in force and t has reached its expiry
ExpiredAt(leaf, t) == leaf.time_in_force > 0 /\ t >= leaf.timestamp + leaf.time_in_force

\* what a returned call is seen to have done: the opposing side as walked, the
\* events pushed, the Fills among them, and for each Fill the place of its maker
\* in the walk
Seen ==
    [walk |-> Walk, pushed |-> Pushed, fills |-> Fills, touched |-> TouchedOpposing,
     maker_at |-> [i \in 1 .. Len(Fills) |->
                      CHOOSE k \in 1 .. Len(Walk) : Walk[k].handle = Fills[i].maker_order_id]]

WalkExpired(o, k) == ExpiredAt(o.walk[k].node, call.now_ts)

\* the budgets left when the walk comes to its j-th leaf
BaseLeftAt(o, j) ==
    call.order.max_base_lots
    - SeqSum([i \in 1 .. Len(o.fills) |->
                 IF o.maker_at[i] < j THEN o.fills[i].quantity ELSE 0])

QuoteLeftAt(o, j) ==
    call.order.max_quote_lots
    - SeqSum([i \in 1 .. Len(o.fills) |->
                 IF o.maker_at[i] < j THEN o.fills[i].price * o.fills[i].quantity ELSE 0])

\* every valid maker before the k-th leaf of the walk was filled or cancelled
ValidBeforeTaken(o, k) ==
    \A i \in 1 .. (k - 1) : ~WalkExpired(o, i) => o.walk[i].handle \in o.touched

\* the walk came to its j-th leaf, an expired one, with both budgets not yet
\* used up
Encountered(o, j) ==
    /\ WalkExpired(o, j)
    /\ ValidBeforeTaken(o, j)
    /\ BaseLeftAt(o, j) >= 1
    /\ QuoteLeftAt(o, j) >= 1

\* the j-th leaf of the walk is the ExpiredRank(o, j)-th expired one
ExpiredRank(o, j) == Cardinality({i \in 1 .. j : WalkExpired(o, i)})

\* the Out events of the call for the opposing leaf with the given key
OutsFor(o, key) ==
    {i \in 1 .. Len(o.pushed) :
        /\ ~IsFill(o.pushed[i])
        /\ o.pushed[i].side = invert_side(TakerSide)
        /\ o.pushed[i].order_id = key}

\* the k-th leaf of the walk, a valid maker the order could take from, was left
\* alone although every valid maker before it was filled or cancelled
PassedOver(o, k) ==
    /\ ~WalkExpired(o, k)
    /\ o.walk[k].handle \notin o.touched
    /\ ValidBeforeTaken(o, k)
    /\ ~Beyond(TakerSide, o.walk[k].price_lots, LimitPrice)
    /\ ~(call.order.params.kind = "Fixed" /\ call.order.params.order_type = "PostOnly")
    /\ Len(o.fills) < call.limit
    /\ BaseLeftAt(o, k) >= 1
    /\ QuoteLeftAt(o, k) >= o.walk[k].price_lots

CancelledOuts(o) ==
    {i \in 1 .. Len(o.pushed) :
        /\ ~IsFill(o.pushed[i])
        /\ o.pushed[i].side = invert_side(TakerSide)
        /\ \E l \in OpposingBefore.leaves :
              l.key = o.pushed[i].order_id /\ ~ExpiredAt(l, call.now_ts)}

\* C14 as stated: a call pushes at most match_limit + 5 + 2 events, whatever the
\* self-trade behaviour and the book
C14_EventBound == Returned => Len(Pushed) <= call.limit + DROP_EXPIRED_ORDER_LIMIT + 2

\* C14: the events a call pushes, the Out events for makers cancelled under
\* CancelProvide left aside, number at most match_limit + 5 + 2.
C14_EventBoundBesidesCancels ==
    Returned =>
        \A o \in {Seen} :
            Len(o.pushed) - Cardinality(CancelledOuts(o))
                <= call.limit + DROP_EXPIRED_ORDER_LIMIT + 2

\* a call that pushed more than match_limit + 5 + 2 events, makers of the taker's
\* own cancelled among them
C14_Witness ==
    /\ Returned
    /\ call.order.self_trade_behavior = "CancelProvide"
    /\ \E o \in {Seen} :
          /\ Len(o.pushed) > call.limit + DROP_EXPIRED_ORDER_LIMIT + 2
          /\ CancelledOuts(o) # {}
          /\ o.fills # <<>>

\* the valid leaves of a book side at t are the leaves not expired at t, in
\* priority order
ValidAreUnexpired(bs, t) ==
    LET v == iter_valid(bs, t)
    IN  /\ Len(v) = Cardinality({l \in bs.leaves : ~ExpiredAt(l, t)})
        /\ \A i \in 1 .. Len(v) : v[i].node \in bs.leaves /\ ~ExpiredAt(v[i].node, t)
        /\ \A i, j \in 1 .. Len(v) :
              i < j => HigherPriority(tree_side(bs), v[i].node, v[j].node)

\* C15: a leaf is expired at now_ts when it has a time in force and now_ts has
\* reached timestamp + time_in_force.  No Fill of a call names a maker expired
\* at the call's now_ts, an expired opposing leaf is either removed or left
\* exactly as it rested, and iter_valid yields exactly the leaves not expired,
\* in priority order.
C15_ExpiredNeverMatched ==
    /\ ValidAreUnexpired(bids, now)
    /\ ValidAreUnexpired(asks, now)
    /\ Returned =>
          /\ ValidAreUnexpired(OpposingBefore, call.now_ts)
          /\ \A i \in 1 .. Len(Fills) :
                ~ExpiredAt(MakerBefore(Fills[i]), call.now_ts)
          /\ \A l \in OpposingBefore.leaves :
                ExpiredAt(l, call.now_ts) =>
                    \/ LeafByKey(OpposingAfter, l.key) = {}
                    \/ l \in OpposingAfter.leaves

\* a call at the very moment the best opposing leaf expires, within the price:
\* the leaf is not matched and the Fill goes to the valid maker behind it
C15_Witness ==
    /\ Returned
    /\ Len(Walk) >= 2
    /\ Walk[1].node.time_in_force > 0
    /\ call.now_ts = Walk[1].node.timestamp + Walk[1].node.time_in_force
    /\ ~Beyond(TakerSide, Walk[1].price_lots, LimitPrice)
    /\ Fills # <<>>
    /\ Fills[1].maker_order_id = Walk[2].handle

\* the walk came to the self-trade test with its k-th leaf, a valid maker of
\* the taker's own: nothing stopped the walk before or at it
OwnMakerReached(o, k) ==
    /\ ~WalkExpired(o, k)
    /\ o.walk[k].node.owner = call.account_pk
    /\ ValidBeforeTaken(o, k)
    /\ ~Beyond(TakerSide, o.walk[k].price_lots, LimitPrice)
    /\ ~(call.order.params.kind = "Fixed" /\ call.order.params.order_type = "PostOnly")
    /\ Cardinality({i \in 1 .. Len(o.fills) : o.maker_at[i] < k}) < call.limit
    /\ BaseLeftAt(o, k) >= 1
    /\ QuoteLeftAt(o, k) >= o.walk[k].price_lots

\* C16: under CancelProvide every valid maker of the taker's own that the walk
\* comes to within the price is removed from the book with exactly one Out
\* event (owner the taker, order_id its key, quantity what it rested with) and
\* no Fill; it takes nothing from the budgets or from match_limit, so no maker
\* the order can still take from is passed over and what is posted is what the
\* Fills left.
C16_CancelProvide ==
    (/\ Returned
     /\ call.order.self_trade_behavior = "CancelProvide"
     /\ call.ret.tag \in {"Some", "None", "SomeError", "InsertError"}) =>
        \A o \in {Seen} :
            /\ \A k \in 1 .. Len(o.walk) :
                  /\ OwnMakerReached(o, k) =>
                        /\ LeafByKey(OpposingAfter, o.walk[k].handle) = {}
                        /\ Cardinality(OutsFor(o, o.walk[k].handle)) = 1
                        /\ \A i \in OutsFor(o, o.walk[k].handle) :
                              /\ o.pushed[i].owner = call.account_pk
                              /\ o.pushed[i].quantity = o.walk[k].node.quantity
                        /\ \A i \in 1 .. Len(o.fills) : o.maker_at[i] # k
                  /\ ~PassedOver(o, k)
            /\ \A i \in 1 .. Len(o.fills) :
                  MakerBefore(o.fills[i]).owner # call.account_pk
            /\ call.ret.tag = "Some" => PostedLeaves # {}

\* a call with match_limit 1 that cancelled a maker of the taker's own and then
\* filled the maker behind it
C16_Witness ==
    /\ Returned
    /\ call.order.self_trade_behavior = "CancelProvide"
    /\ call.limit = 1
    /\ Len(Pushed) = 2
    /\ ~IsFill(Pushed[1])
    /\ Pushed[1].owner = call.account_pk
    /\ Pushed[1].side = invert_side(TakerSide)
    /\ IsFill(Pushed[2])
    /\ OwnMakerReached(Seen, 1)

\* C17: a call that returns WouldSelfTrade leaves both book sides and the event
\* queue (events, count and seq_num) exactly as they were before the call.
C17_AbortIsAtomic ==
    (Returned /\ call.ret.tag = "WouldSelfTrade") =>
        /\ bids = call.bids
        /\ asks = call.asks
        /\ event_queue = call.event_queue

\* C18: a call that returns OutOfSpace leaves the book and the event queue in
\* their state before the call.
C18_OutOfSpaceIsSideEffectFree ==
    (Returned /\ call.ret.tag = "SomeError") =>
        /\ bids = call.bids
        /\ asks = call.asks
        /\ event_queue = call.event_queue

\* the taker's own side had no node to give before the call and none of its
\* leaves was expired, so that the expired sweep frees nothing
OwnSideStaysFull ==
    /\ OwnBefore.free_list_len = 0
    /\ OwnBefore.bump_index = OwnBefore.nodes_len
    /\ OwnBefore.leaves # {}
    /\ \A l \in OwnBefore.leaves : ~ExpiredAt(l, call.now_ts)

\* the leaves of the taker's own side every other leaf has priority over
WorstOwn ==
    {w \in OwnBefore.leaves :
        \A m \in OwnBefore.leaves : m = w \/ HigherPriority(TakerSide, m, w)}

\* the Out events of the call for leaves of the taker's own side
OwnOuts == {i \in 1 .. Len(Pushed) : ~IsFill(Pushed[i]) /\ Pushed[i].side = TakerSide}

\* the call came to post a remainder
CameToPost == Returned /\ call.ret.tag \in {"Some", "SomeError", "InsertError"}

\* C19: when a call comes to post a remainder on a side that is still full after
\* the expired sweep, at a price strictly better than that of the worst resting
\* leaf, it returns Some, removes exactly that worst leaf with exactly one Out
\* event carrying its key, inserts the new leaf, and leaves leaf_count as it was.
C19_EvictionWhenFull ==
    (CameToPost /\ OwnSideStaysFull) =>
        \A w \in WorstOwn :
            (IF TakerSide = Bid THEN LimitPrice > PriceOf(w) ELSE LimitPrice < PriceOf(w)) =>
                /\ call.ret.tag = "Some"
                /\ PostedLeaves # {}
                /\ OwnAfter.leaves = (OwnBefore.leaves \ {w}) \cup PostedLeaves
                /\ OwnAfter.leaf_count = OwnBefore.leaf_count
                /\ Cardinality(OwnOuts) = 1
                /\ \A i \in OwnOuts :
                      /\ Pushed[i].order_id = w.key
                      /\ Pushed[i].owner = w.owner
                      /\ Pushed[i].quantity = w.quantity

\* a call that posted on a full side holding leaves at two prices and evicted
\* the worse one
C19_Witness ==
    /\ Returned
    /\ call.ret.tag = "Some"
    /\ OwnSideStaysFull
    /\ \E a, b \in OwnBefore.leaves : PriceOf(a) # PriceOf(b)
    /\ \E w \in WorstOwn : w \notin OwnAfter.leaves
    /\ Cardinality(OwnOuts) = 1

\* the leaves of the taker's own side that the call removed
OwnRemoved == {l \in OwnBefore.leaves : LeafByKey(OwnAfter, l.key) = {}}

\* a call that comes to post removes at most one expired leaf of the taker's own
\* side, with exactly one Out event for it; where none is expired it removes
\* nothing but the worst leaf of a full side
SweepWhenPosting ==
    CameToPost =>
        LET expired == {l \in OwnBefore.leaves : ExpiredAt(l, call.now_ts)}
        IN  /\ Cardinality(OwnRemoved \cap expired) <= 1
            /\ expired # {} =>
                  /\ Cardinality(OwnRemoved) = 1
                  /\ OwnRemoved \subseteq expired
                  /\ Cardinality(OwnOuts) = 1
                  /\ \A i \in OwnOuts : \E l \in OwnRemoved :
                        /\ Pushed[i].order_id = l.key
                        /\ Pushed[i].owner = l.owner
                        /\ Pushed[i].quantity = l.quantity
            /\ expired = {} =>
                  /\ OwnRemoved \subseteq WorstOwn
                  /\ ~OwnSideStaysFull => OwnRemoved = {}

\* a call that did not post its order removed no leaf of the taker's own side
NotPostedKeepsOwnSide ==
    (Returned /\ call.ret.tag # "Some") => OwnRemoved = {}

\* C20: a call that posts a remainder removes at most one leaf expired at now_ts
\* from the taker's own side, full or not, with exactly one Out event for it;
\* with no own-side leaf expired this step removes nothing; and a call that does
\* not post its order removes no own-side leaf at all.
C20_OwnSideSweep == SweepWhenPosting /\ NotPostedKeepsOwnSide

\* an event of the call is about a leaf of the opposing side
OnOpposing(e) == IsFill(e) \/ e.side = invert_side(TakerSide)

\* the opposing leaf, as it rested before the call, that an event is about
OpposingLeafOf(e) ==
    CHOOSE l \in OpposingBefore.leaves :
        l.key = (IF IsFill(e) THEN e.maker_order_id ELSE e.order_id)

\* the place of an event in the order of C24: Outs of expired opposing leaves,
\* Outs of cancelled makers, Fills, Outs of the taker's own side
EventPhase(e) ==
    IF IsFill(e) THEN 3
    ELSE IF e.side = TakerSide THEN 4
    ELSE IF ExpiredAt(OpposingLeafOf(e), call.now_ts) THEN 1
    ELSE 2

\* C24 as stated: the events of a call come in four groups, Outs of expired
\* opposing leaves, then Outs of cancelled makers, then Fills, then the Outs of
\* the taker's own side; no Fill precedes an Out of an opposing leaf
C24_EventsInPhases ==
    Returned =>
        \A o \in {Seen} : \A i, j \in 1 .. Len(o.pushed) :
            i < j => EventPhase(o.pushed[i]) <= EventPhase(o.pushed[j])

\* C24: the events of a call about opposing leaves (the Out of an expired leaf
\* dropped, the Out of a maker cancelled, a Fill) come in the order in which the
\* walk meets the leaves, best priority first, one event a leaf; the Outs of the
\* taker's own side come after all of them.
C24_EventsInWalkOrder ==
    Returned =>
        \A o \in {Seen} : \A i, j \in 1 .. Len(o.pushed) :
            i < j =>
                /\ OnOpposing(o.pushed[j]) => OnOpposing(o.pushed[i])
                /\ OnOpposing(o.pushed[j]) =>
                      HigherPriority(invert_side(TakerSide),
                                     OpposingLeafOf(o.pushed[i]),
                                     OpposingLeafOf(o.pushed[j]))

\* a call that filled a maker and then dropped an expired leaf behind it
C24_Witness ==
    /\ Returned
    /\ Len(Pushed) >= 2
    /\ IsFill(Pushed[1])
    /\ ~IsFill(Pushed[2])
    /\ Pushed[2].side = invert_side(TakerSide)
    /\ ExpiredAt(OpposingLeafOf(Pushed[2]), call.now_ts)

-----------------------------------------------------------------------------
(* cancel_order_by_id *)

Cancelled == call.pc = "cancelled"

\* the side named in the cancel, before and after it
CancelSideBefore == bookside(call, call.side)
CancelSideAfter == IF call.side = Bid THEN bids ELSE asks

\* the leaves with the id of the cancel that rested on the side named in it
CancelTarget == {l \in CancelSideBefore.leaves : l.key = call.id}

CancelChangedNothing ==
    /\ bids = call.bids
    /\ asks = call.asks
    /\ event_queue = call.event_queue
    /\ market = call.market

\* C21: a cancel by an account that does not own the leaf with the given id
\* fails, and the leaf still rests afterwards, with both sides and the event
\* queue unchanged.
C21_UnauthorizedCancel ==
    (Cancelled /\ \E l \in CancelTarget : l.owner # call.account_pk) =>
        /\ call.ret.tag \notin {"Ok", "PerpOrderIdNotFound"}
        /\ CancelTarget \subseteq CancelSideAfter.leaves
        /\ CancelChangedNothing

\* C22: a cancel by the owner of a leaf resting with the given id on the given
\* side returns that leaf and removes exactly it: the other leaves of the side,
\* the other side, the market's seq_num and the event queue are as before.  A
\* cancel of an id that does not rest on the given side fails with
\* PerpOrderIdNotFound and changes nothing.
C22_CancelById ==
    Cancelled =>
        /\ (\E l \in CancelTarget : l.owner = call.account_pk) =>
              /\ call.ret.tag = "Ok"
              /\ call.ret.leaf = CancelTarget
              /\ CancelSideAfter.leaves = CancelSideBefore.leaves \ CancelTarget
              /\ CancelSideAfter.leaf_count = CancelSideBefore.leaf_count - 1
              /\ call.side = Bid => asks = call.asks
              /\ call.side = Ask => bids = call.bids
              /\ market = call.market
              /\ event_queue = call.event_queue
        /\ CancelTarget = {} =>
              /\ call.ret.tag = "PerpOrderIdNotFound"
              /\ CancelChangedNothing

\* an owner cancelled one of two leaves of a side while events were pending
C22_Witness ==
    /\ Cancelled
    /\ call.ret.tag = "Ok"
    /\ Cardinality(CancelSideBefore.leaves) = 2
    /\ Cardinality(CancelSideAfter.leaves) = 1
    /\ call.event_queue.count >= 1

-----------------------------------------------------------------------------
(* The event queue *)

PushedBack == call.pc = "pushed"
Popped == call.pc = "popped"
Reverted == call.pc = "reverted"

\* head, count and seq_num of two queues agree, and so do their pending events
SameQueue(a, b) ==
    /\ a.head = b.head
    /\ a.count = b.count
    /\ a.seq_num = b.seq_num
    /\ queue_iter(a) = queue_iter(b)

\* the pending events are the last count events pushed, oldest first: each
\* carries the seq_num the header had when it was pushed
PendingInPushOrder(eq) ==
    LET pending == queue_iter(eq)
    IN  /\ Len(pending) = eq.count
        /\ \A i \in 1 .. eq.count : pending[i].seq_num = eq.seq_num - eq.count + i - 1

\* C27: the queue is first in, first out across wrap-around.  A push writes
\* slot (head + count) mod M and appends to the pending events; a pop hands out
\* the event at slot head, the oldest pending, and advances head mod M;
\* peek_front is the event the next pop hands out and iter the pending events
\* oldest first, neither changing the queue.
C27_FifoAcrossWrap ==
    /\ PendingInPushOrder(event_queue)
    /\ peek_front(event_queue) =
          (IF event_queue.count = 0 THEN {} ELSE {queue_iter(event_queue)[1]})
    /\ peek_front(event_queue) = pop_front(event_queue).value
    /\ (PushedBack /\ call.ok) =>
          /\ queue_iter(event_queue) = Append(queue_iter(call.queue), call.value)
          /\ event_queue.buf[((call.queue.head + call.queue.count) % RingSlots) + 1]
                = call.value
          /\ event_queue.head = call.queue.head
    /\ (Popped /\ call.ok) =>
          /\ call.value = {Head(queue_iter(call.queue))}
          /\ \A e \in call.value : e.seq_num = call.queue.seq_num - call.queue.count
          /\ queue_iter(event_queue) = Tail(queue_iter(call.queue))
          /\ event_queue.head = (call.queue.head + 1) % RingSlots

\* a pop from the last slot of the buf with events pending in the first slots
C27_Witness ==
    /\ Popped
    /\ call.ok
    /\ call.queue.head = RingSlots - 1
    /\ call.queue.count >= 2
    /\ event_queue.head = 0
    /\ event_queue.seq_num > RingSlots

\* C28: push_back on a queue holding its capacity of events fails and hands
\* back the event passed in; pop_front on an empty queue fails and peek_front
\* there is None; either leaves head, count, seq_num and the events as they
\* were.
C28_FailingOpsChangeNothing ==
    /\ (PushedBack /\ call.queue.count = RingSlots) =>
          /\ ~call.ok
          /\ call.err = {call.value}
          /\ event_queue = call.queue
    /\ (Popped /\ call.queue.count = 0) =>
          /\ ~call.ok
          /\ call.value = {}
          /\ peek_front(call.queue) = {}
          /\ event_queue = call.queue

\* a push on a full queue whose pending events wrap around the end of the buf
C28_Witness ==
    /\ PushedBack
    /\ ~call.ok
    /\ call.queue.count = RingSlots
    /\ call.queue.head > 0

RECURSIVE PushAll(_, _)
\* the queue after pushing the events of a sequence, each of which finds room
PushAll(eq, values) ==
    IF values = <<>> THEN eq
    ELSE PushAll(push_back(eq, Head(values)).queue, Tail(values))

\* the sequences of k events a producer may push on any queue
EventRuns(k) ==
    [1 .. k -> UNION {RingEvents(EventQueue_sized(RingSlots))}]

\* C29: pushing k events on a queue of count n and then revert_pushes(n) gives
\* back head, count, seq_num and the n pending events; revert_pushes(d) leaves
\* the first d pending events, takes count - d from seq_num and never moves
\* head; with d > count it fails and changes nothing.
C29_RevertUndoesPushes ==
    /\ \A k \in 0 .. (RingSlots - event_queue.count) : \A values \in EventRuns(k) :
          LET back == revert_pushes(PushAll(event_queue, values), event_queue.count)
          IN  back.ok /\ SameQueue(back.queue, event_queue)
    /\ Reverted =>
          /\ event_queue.head = call.queue.head
          /\ call.desired_len > call.queue.count =>
                ~call.ok /\ event_queue = call.queue
          /\ call.desired_len <= call.queue.count =>
                /\ call.ok
                /\ event_queue.count = call.desired_len
                /\ event_queue.seq_num =
                      call.queue.seq_num - (call.queue.count - call.desired_len)
                /\ queue_iter(event_queue) =
                      SubSeq(queue_iter(call.queue), 1, call.desired_len)

\* two pushes reverted on a queue whose head has moved and that still holds an
\* event
C29_Witness ==
    /\ Reverted
    /\ call.ok
    /\ call.queue.count - call.desired_len = 2
    /\ call.desired_len = 1
    /\ call.queue.head > 0

\* C23: every event carries the header's seq_num as it was when the event was
\* pushed, a push adds exactly 1 to the header's seq_num and a pop leaves it, so
\* the events of new_order calls, as the consumer pops them, carry consecutive
\* seq_nums and no two events share one.
C23_SeqNumsGapFree ==
    /\ PendingInPushOrder(event_queue)
    /\ Returned =>
          /\ event_queue.seq_num = call.event_queue.seq_num + Len(Pushed)
          /\ \A i \in 1 .. Len(Pushed) :
                Pushed[i].seq_num = call.event_queue.seq_num + i - 1
    /\ Popped =>
          /\ event_queue.seq_num = call.queue.seq_num
          /\ \A e \in call.value : e.seq_num = call.queue.seq_num - call.queue.count

\* a call that pushed two events into a queue the consumer has popped from
C23_Witness ==
    /\ Returned
    /\ Len(Pushed) = 2
    /\ call.event_queue.head > 0
    /\ call.event_queue.seq_num > 0

\* C25: when a call cannot push an event because the queue holds its capacity
\* of events, it returns a QueueFull error to its caller, without panicking,
\* and the book sides and the queue are as before the call.
C25_QueueFullIsRecoverable ==
    (/\ Returned
     /\ event_queue.count = event_queue.buf_len
     /\ call.ret.tag \notin {"Some", "None", "SomeError", "InsertError", "WouldSelfTrade"}) =>
        /\ call.ret.tag = "QueueFull"
        /\ bids = call.bids
        /\ asks = call.asks
        /\ event_queue = call.event_queue

\* C26: a call whose Fixed or ImmediateOrCancel price_lots is zero or negative
\* fails with InvalidPrice and leaves market.seq_num, both book sides and the
\* event queue as they were.
C26_InvalidPriceRejected ==
    (Returned /\ call.order.params.kind # "Market" /\ call.order.params.price_lots <= 0) =>
        /\ call.ret.tag = "InvalidPrice"
        /\ market = call.market
        /\ bids = call.bids
        /\ asks = call.asks
        /\ event_queue = call.event_queue

\* C30: when matched_quantity(amt, now_ts) is Some(q) for an amt > 0, then
\* matched_amount(q, now_ts) is Some(a) with a >= amt, and
\* matched_amount(q - 1, now_ts) is below amt whenever q > 1.
C30_CeilingLaw ==
    (call.pc = "asked" /\ call.amount > 0) =>
        \A q \in call.quantity :
            /\ call.filled # {}
            /\ \A a \in call.filled : a >= call.amount
            /\ q > 1 => \A a \in call.filled_one_less : a < call.amount

-----------------------------------------------------------------------------
(* The removals of a book side (TreeSpec) *)

RemovedWorst == call.pc = "removed_worst"
RemovedExpired == call.pc = "removed_expired"

\* the side a removal worked on, as it is now
RemovalSideAfter == IF call.side = Bid THEN bids ELSE asks

\* C31: remove_worst removes and returns the leaf of lowest priority of the
\* side, with its price (the lowest-priced leaf for bids, the highest-priced
\* for asks, the latest of that price), whether it is expired or not; every
\* other leaf stays; on an empty side it returns None and changes nothing.
C31_RemoveWorst ==
    RemovedWorst =>
        IF call.tree.leaves = {}
        THEN call.ret.removed = {} /\ RemovalSideAfter = call.tree
        ELSE \E w \in call.tree.leaves :
                /\ \A l \in call.tree.leaves \ {w} :
                      /\ IF call.side = Bid THEN PriceOf(w) <= PriceOf(l)
                                            ELSE PriceOf(w) >= PriceOf(l)
                      /\ HigherPriority(call.side, l, w)
                /\ call.ret.removed = {w}
                /\ call.ret.price = PriceOf(w)
                /\ RemovalSideAfter.leaves = call.tree.leaves \ {w}
                /\ RemovalSideAfter.leaf_count = call.tree.leaf_count - 1

\* the worst of three leaves at two prices was removed although it had expired
\* and a better leaf had not
C31_Witness ==
    /\ RemovedWorst
    /\ Cardinality(call.tree.leaves) = 3
    /\ \E w \in call.ret.removed :
          /\ ExpiredAt(w, call.now_ts)
          /\ \E l \in call.tree.leaves : PriceOf(l) # PriceOf(w) /\ ~ExpiredAt(l, call.now_ts)
          /\ \E l \in call.tree.leaves : l # w /\ PriceOf(l) = PriceOf(w)

\* the least expiry among the leaves S
EarliestExpiry(S) == CHOOSE e \in {expiry(l) : l \in S} : \A l \in S : e <= expiry(l)

\* one inner node for every two leaves that part ways at it
InnerNodesOf(K) == {InnerOver({p[1], p[2]}) : p \in {q \in K \X K : q[1].key < q[2].key}}

\* each inner node's child_earliest_expiry[i] is the least expiry over the
\* leaves of its subtree i
ExpiryCacheExact(bs) ==
    /\ DOMAIN bs.child_earliest_expiry = InnerNodesOf(bs.leaves)
    /\ \A n \in DOMAIN bs.child_earliest_expiry : \A i \in 0 .. 1 :
          bs.child_earliest_expiry[n][i + 1] = EarliestExpiry(ChildLeaves(bs.leaves, n, i))

ExpiredLeaves(bs, t) == {l \in bs.leaves : ExpiredAt(l, t)}

-----------------------------------------------------------------------------
(* Invariants of the book *)

\* root.leaf_count of a side is the number of leaves its iterator yields
LeafCountExact(bs) ==
    /\ bs.leaf_count = Cardinality(bs.leaves)
    /\ bs.leaf_count = Len(iter_all_including_invalid(bs, now))

\* C32: after any sequence of new_order and cancel_order_by_id calls, failed
\* calls included, root.leaf_count of each side is the number of leaves
\* reachable from the side's root, the number its iterator yields.
C32_LeafCountExact == LeafCountExact(bids) /\ LeafCountExact(asks)

\* a cancel has just failed on a side that had two leaves, and leaves rest on
\* both sides
C32_Witness ==
    /\ Cancelled
    /\ call.ret.tag = "SomeError"
    /\ CancelSideBefore.leaf_count = 2
    /\ bids.leaf_count >= 1
    /\ asks.leaf_count >= 1

\* C35: after any sequence of new_order calls with max_base_lots >= 0,
\* max_quote_lots >= 0 and price_lots >= 1, no leaf resting on either side has
\* quantity <= 0: a posted remainder has quantity >= 1, a partially filled
\* maker keeps quantity >= 1, a maker reduced to 0 is removed.
C35_QuantityAtLeastOne ==
    \A l \in bids.leaves \cup asks.leaves : l.quantity >= 1

\* a call filled a maker in part, which rests on with less than before, and
\* posted the remainder of its order
C35_Witness ==
    /\ Returned
    /\ call.ret.tag = "Some"
    /\ \E l \in OwnAfter.leaves : l.key = call.ret.id /\ l.quantity = 1
    /\ \E i \in 1 .. Len(Fills) :
          /\ Fills[i].maker_out = 0
          /\ \E m \in OpposingAfter.leaves :
                /\ m.key = Fills[i].maker_order_id
                /\ m.quantity = MakerBefore(Fills[i]).quantity - Fills[i].quantity
                /\ m.quantity = 1

\* the leaves of both sides, each with the seq its key carries
RestingSeqs(bidsV, asksV) ==
    {<<Bid, l.key, SeqOf(Bid, l)>> : l \in bidsV.leaves}
        \cup {<<Ask, l.key, SeqOf(Ask, l)>> : l \in asksV.leaves}

\* C36: every new_order call increases market.seq_num by exactly 1, whether
\* the order posts, fills or fails later; the ids a market generates are
\* pairwise distinct (each carries a seq no id before it carried), no two
\* leaves resting on a side share a key, and the insert_leaf of new_order
\* never replaces an existing leaf.
C36_OrderIdsUnique ==
    /\ \A x, y \in RestingSeqs(bids, asks) : x[3] = y[3] => x = y
    /\ \A x \in RestingSeqs(bids, asks) : 1 <= x[3] /\ x[3] <= market.seq_num
    /\ \A bs \in {bids, asks} : \A l, m \in bs.leaves : l.key = m.key => l = m
    /\ Returned =>
          /\ market.seq_num = call.market.seq_num + 1
          /\ SeqOf(TakerSide, [key |-> OrderId]) = market.seq_num
          /\ \A x \in RestingSeqs(call.bids, call.asks) : x[3] < market.seq_num
          /\ LeafByKey(OwnBefore, OrderId) = {}

\* an order was posted at the price of a leaf that rests on its side
C36_Witness ==
    /\ Returned
    /\ call.ret.tag = "Some"
    /\ \E l \in OwnBefore.leaves :
          /\ PriceOf(l) = LimitPrice
          /\ l \in OwnAfter.leaves
          /\ \E m \in OwnAfter.leaves : m.key = call.ret.id /\ m.key # l.key

\* the event is about the leaf of this key on this side
Touches(e, side, key) ==
    IF IsFill(e) THEN invert_side(e.taker_side) = side /\ e.maker_order_id = key
    ELSE e.side = side /\ e.order_id = key

\* the event says that the leaf of this key on this side has left the book
NamesGone(e, side, key) ==
    Touches(e, side, key) /\ (IsFill(e) => e.maker_out = 1)

\* the leaf, gone from its side, is reported by the one event evs[i]: a Fill
\* that took all of it from its owner, or an Out that carries its owner and
\* quantity
ReportsGone(e, l) ==
    IF IsFill(e) THEN e.quantity = l.quantity /\ e.maker = l.owner
    ELSE e.owner = l.owner /\ e.quantity = l.quantity /\ e.order_id = l.key

DisappearancesReported(evs, side, before, after) ==
    \A l \in before.leaves :
        \A named \in {{i \in 1 .. Len(evs) : NamesGone(evs[i], side, l.key)}} :
            /\ IF LeafByKey(after, l.key) = {}
               THEN /\ Cardinality(named) = 1
                    /\ \A i \in named : ReportsGone(evs[i], l)
               ELSE named = {}
            /\ Cardinality({i \in 1 .. Len(evs) : Touches(evs[i], side, l.key)}) <= 1

\* C37: over one successful new_order call each leaf that rested before the
\* call and is absent after it is named by exactly one event the call pushed,
\* a Fill with maker_out = 1 if it was fully matched and otherwise an Out
\* event with the leaf's owner, quantity and order id; no Out event and no
\* Fill with maker_out = 1 names a leaf that still rests or never rested; no
\* leaf is touched twice, and every deferred deletion finds its leaf.
C37_DisappearancesReportedOnce ==
    /\ Returned => call.ret.tag # "Panic"
    /\ Succeeded =>
          \A evs \in {Pushed} :
              /\ DisappearancesReported(evs, Bid, call.bids, bids)
              /\ DisappearancesReported(evs, Ask, call.asks, asks)
              /\ \A i \in 1 .. Len(evs) :
                    (IsFill(evs[i]) => evs[i].maker_out = 1) =>
                        \E side \in Sides : \E l \in bookside(call, side).leaves :
                            NamesGone(evs[i], side, l.key)

\* a call removed one opposing leaf without matching it and filled another
\* completely: an Out and a Fill with maker_out = 1, and both leaves are gone
C37_Witness ==
    /\ Succeeded
    /\ Cardinality(OpposingBefore.leaves) = 2
    /\ OpposingAfter.leaves = {}
    /\ \E i, j \in 1 .. Len(Pushed) :
          /\ IsFill(Pushed[i]) /\ Pushed[i].maker_out = 1
          /\ ~IsFill(Pushed[j]) /\ Pushed[j].side = invert_side(TakerSide)

\* the opposing leaves that are valid at the time of the call and priced within
\* the limit of its order
CrossingLeaves ==
    {l \in OpposingAfter.leaves :
        /\ ~ExpiredAt(l, call.now_ts)
        /\ IF TakerSide = Bid THEN PriceOf(l) <= LimitPrice ELSE PriceOf(l) >= LimitPrice}

\* C38: after a new_order call that returns Some(order_id) no opposing leaf
\* that is valid at now_ts has a price within the limit of the posted order
\* (no valid ask priced <= a newly posted bid, no valid bid priced >= a newly
\* posted ask), whatever the budgets, the match limit and the self-trade
\* behaviour.
C38_NeverCrossed ==
    (Returned /\ call.ret.tag = "Some") => CrossingLeaves = {}

-----------------------------------------------------------------------------
(* The header of the event queue (RingSpec) *)

\* C40: in every state reachable from a zeroed queue by push_back, pop_front
\* and revert_pushes, 0 <= count <= capacity, 0 <= head < capacity and
\* count <= seq_num, so the decrement of seq_num in revert_pushes and the
\* decrement of count in pop_front never go below 0.
C40_HeaderWellFormed ==
    /\ 0 <= event_queue.count
    /\ event_queue.count <= event_queue.buf_len
    /\ 0 <= event_queue.head
    /\ event_queue.head < event_queue.buf_len
    /\ event_queue.count <= event_queue.seq_num
    /\ 0 <= event_queue.seq_num

\* pushes were reverted on a queue whose head has moved: fewer events are
\* pending than were ever counted
C40_Witness ==
    /\ Reverted
    /\ call.ok
    /\ call.desired_len < call.queue.count
    /\ event_queue.head > 0
    /\ event_queue.count > 0
    /\ event_queue.seq_num > event_queue.count

====
